---- MODULE Spec2Model ----
(***************************************************************************)
(* Model of the AI response dispatcher of                                  *)
(* backend/src/routes/messengerRoutes.js: generateReply (media             *)
(* preprocessing, SalesmanChatbot own-API path, Phase 1 user keys, Phase 2 *)
(* managed swarm), handleAiError, and the parsing helpers it relies on.    *)
(*                                                                         *)
(* JavaScript values are encoded as follows:                               *)
(*   - undefined / null strings are the strings Undef / Null;              *)
(*   - an HTTP status that is absent is NoStatus (0);                      *)
(*   - pageConfig.api_key is the sequence of its comma-separated segments  *)
(*     (what String.split(',') returns); the empty sequence stands for a   *)
(*     missing (undefined/null) api_key, <<"">> for the empty string;      *)
(*   - an error message is a sequence of words; String.includes(w) is      *)
(*     membership of w among them.                                         *)
(***************************************************************************)
EXTENDS Integers, Sequences, FiniteSets, TLC

VARIABLES
    pageConfig,        \* the page row handed to generateReply
    history,           \* the history argument (roles of its turns)
    imagesLeft,        \* image references not yet analysed
    audioLeft,         \* audio references not yet transcribed
    pc,                \* position of the generateReply call
    messages,          \* roles of the message sequence sent to the provider
    userKeyAttempted,  \* generateReply's local flag (line 954)
    userKeys,          \* shuffled user keys still to be tried (line 964)
    curKey,            \* credential of the attempt in progress
    swarmI,            \* loop counter i of the swarm loop (line 1088)
    rawContent,        \* content of the completion being handled
    keyState,          \* key pool health table (keyService)
    acquires,          \* pooled credentials getSmartKey handed out to media
                       \* preprocessing (media) and to the swarm loop (swarm),
                       \* and getSmartKey calls of the swarm loop (swarmGet)
    calls,             \* log of the inference calls of the request
    searches,          \* product searches made for a tool call
    lastFail,          \* last error passed to handleAiError, with its key
    result,            \* value generateReply completed with
    vision,            \* a processImageWithVision call: position, stage trail,
                       \* request in flight, value returned
    audio,             \* a transcribeAudio call, likewise
    parser,            \* an extractJsonFromAiResponse application: payload,
                       \* texts handed in, values returned
    resolver,          \* model selection of a generateReply call: page
                       \* fields, defaultModel, identifier sent
    bestFreeModels,    \* the module-level table { text, vision, voice }
    refresh,           \* the updateBestFreeModels runs: position and locals
    cache,             \* getCacheKey applications: two requests, their keys
    pool,              \* key pool seen over time: clock, quarantines,
                       \* credentials handed to the swarm loops
    media,             \* media preprocessing of a request: the analyses in
                       \* flight, their completion order, usage, context
    route,             \* a request to the routes of the router: requester,
                       \* rows, response
    settings           \* the settings page: form state, stored row, requests

vars == << resolver, bestFreeModels, refresh, cache, pool, media, route, settings,
           vision, audio, parser, pageConfig, history, imagesLeft, audioLeft, pc, messages, userKeyAttempted,
           userKeys, curKey, swarmI, rawContent, keyState, acquires, calls,
           searches, lastFail, result >>

\* module-level services and helpers outside one generateReply call
pageVars == << media, route, settings >>

serviceVars == << resolver, bestFreeModels, refresh, cache, pool, pageVars >>

-----------------------------------------------------------------------------
(* Bounds of the model *)

MaxMedia == 1      \* image references and audio references per request
PoolSize == 2      \* pooled google/gemini-2.5-flash credentials
MaxReplyLen == 3   \* tokens in the reply text of a payload

-----------------------------------------------------------------------------
(* JavaScript value helpers *)

Undef == "undefined"
Null == "null"
NoStatus == 0

\* JavaScript truthiness of a string-or-missing value
Truthy(v) == v \notin {Undef, Null, ""}

\* a || b
OrElse(a, b) == IF Truthy(a) THEN a ELSE b

\* String.prototype.trim on a key segment or a model name
Trim(s) ==
    CASE s = " " -> ""
      [] s = " AIzaSyA" -> "AIzaSyA"
      [] s = "gsk_B " -> "gsk_B"
      [] s = " gemini-pro " -> "gemini-pro"
      [] OTHER -> s

RECURSIVE SeqFilterNonEmpty(_)
SeqFilterNonEmpty(s) ==
    IF s = << >> THEN << >>
    ELSE IF Head(s) = "" THEN SeqFilterNonEmpty(Tail(s))
         ELSE << Head(s) >> \o SeqFilterNonEmpty(Tail(s))

\* all orderings of the elements of a sequence (outcomes of the shuffle)
Perms(s) ==
    { [i \in 1..Len(s) |-> s[f[i]]] :
        f \in { g \in [1..Len(s) -> 1..Len(s)] :
                    \A a, b \in 1..Len(s) : a # b => g[a] # g[b] } }

-----------------------------------------------------------------------------
(* Inputs *)

CheapEngineValues == { "true", "false", Undef }

\* pageConfig.api_key values: missing, "", the managed marker, one key,
\* two keys, only separators, keys with blanks around them
ApiKeys ==
    { << >>,
      << "" >>,
      << "MANAGED_SECRET_KEY" >>,
      << "AIzaSyA" >>,
      << " AIzaSyA", "gsk_B " >>,
      << "", " " >> }

Providers == { Undef, "salesmanchatbot" }

PageConfigs ==
    [ cheap_engine : CheapEngineValues,
      api_key : ApiKeys,
      ai : Providers,
      is_external_api : BOOLEAN ]

PoolKeys == { "P" \o ToString(n) : n \in 1..PoolSize }


\* history argument: one earlier exchange
Histories == { << "user", "assistant" >> }

-----------------------------------------------------------------------------
(* Model output.  A completion's content is described by the text itself   *)
(* (raw), the kind of value extractJsonFromAiResponse gets from it (json:  *)
(* "object", "number", "array", or "none" when the text does not parse),    *)
(* the fields of that value (Undef when absent), and what the "reply"      *)
(* pattern of extractReplyFromText captures in the text (rx, Undef for no  *)
(* match).                                                                  *)

Content(raw, json, reply, response, text, message, tool, query, error, rx) ==
    [ raw |-> raw, json |-> json, reply |-> reply, response |-> response,
      text |-> text, message |-> message, tool |-> tool, query |-> query,
      error |-> error, rx |-> rx ]

CReply == Content("{reply:hi}", "object", "hi", Undef, Undef, Undef, Undef, Undef, Undef, "hi")
CReplyErr == Content("{reply:hi,error:oops}", "object", "hi", Undef, Undef, Undef, Undef, Undef, "oops", "hi")
CResponse == Content("{response:r}", "object", Undef, "r", Undef, Undef, Undef, Undef, Undef, Undef)
CMessage == Content("{message:m}", "object", Undef, Undef, Undef, "m", Undef, Undef, Undef, Undef)
CSearch == Content("{tool:search_products,query:q}", "object", Undef, Undef, Undef, Undef, "search_products", "q", Undef, Undef)
COtherTool == Content("{tool:send_email}", "object", Undef, Undef, Undef, Undef, "send_email", Undef, Undef, Undef)
CBroken == Content("{reply:hi,", "none", Undef, Undef, Undef, Undef, Undef, Undef, Undef, "hi")
CText == Content("plain text", "none", Undef, Undef, Undef, Undef, Undef, Undef, Undef, Undef)
CEmpty == Content("", "none", Undef, Undef, Undef, Undef, Undef, Undef, Undef, Undef)
CNumber == Content("5", "number", Undef, Undef, Undef, Undef, Undef, Undef, Undef, Undef)
CArray == Content("[1,2]", "array", Undef, Undef, Undef, Undef, Undef, Undef, Undef, Undef)

Contents ==
    { CReply, CReplyErr, CResponse, CMessage, CSearch, COtherTool, CBroken,
      CText, CEmpty, CNumber, CArray }

NoContent == CEmpty

ApologySentinel == "Sorry, something went wrong while processing your request."

\* extractJsonFromAiResponse returns the parsed value (TRUE) or throws (FALSE)
extractJsonFromAiResponse(c) == c.json # "none"

\* parsed && typeof parsed === 'object'
IsObject(c) == c.json \in { "object", "array" }

\* extractReplyFromText applied to the text of c
extractReplyFromText(c) ==
    IF c.raw = "" THEN ""
    ELSE IF IsObject(c) /\ Truthy(c.reply) THEN c.reply
    ELSE IF IsObject(c) /\ Truthy(c.text) THEN c.text
    ELSE IF IsObject(c) /\ Truthy(c.message) THEN c.message
    ELSE IF IsObject(c) /\ (c.tool # Undef \/ c.query # Undef) THEN ApologySentinel
    ELSE IF Truthy(c.rx) THEN c.rx
    ELSE c.raw

\* parsed.tool === 'search_products' && parsed.query
IsSearchToolCall(c) == c.tool = "search_products" /\ Truthy(c.query)

-----------------------------------------------------------------------------
(* Values generateReply completes with *)

Pending == [ kind |-> "pending", reply |-> Undef, error |-> Undef, tool |-> Undef, query |-> Undef ]
NullResult == [ kind |-> "null", reply |-> Null, error |-> Null, tool |-> Undef, query |-> Undef ]
Thrown == [ kind |-> "throw", reply |-> Undef, error |-> Undef, tool |-> Undef, query |-> Undef ]

ErrorResult(msg) ==
    [ kind |-> "value", reply |-> Null, error |-> msg, tool |-> Undef, query |-> Undef ]

ReplyResult(r) ==
    [ kind |-> "value", reply |-> r, error |-> Undef, tool |-> Undef, query |-> Undef ]

\* if (!parsed.reply) parsed.reply = parsed.response || parsed.text;
\* return { ...parsed, token_usage, model }
\* (a number has no properties, takes none and spreads to nothing; an array
\* spreads its indices and a reply that is undefined)
SpreadResult(c) ==
    [ kind |-> "value",
      reply |-> IF Truthy(c.reply) THEN c.reply ELSE OrElse(c.response, c.text),
      error |-> c.error, tool |-> c.tool, query |-> c.query ]

\* the catch (e) of the parse block: reply recovered from the raw text
FallbackResult(c) == ReplyResult(extractReplyFromText(c))

-----------------------------------------------------------------------------
(* Key pool (keyService) *)

RateLimitMs == 60000          \* 60 * 1000
AuthErrorMs == 86400000       \* 24 * 60 * 60 * 1000

Alive == [ status |-> "alive", durationMs |-> 0, reason |-> "" ]

markKeyAsDead(ks, k, durationMs, reason) ==
    [ ks EXCEPT ![k] = [ status |-> "dead", durationMs |-> durationMs, reason |-> reason ] ]

markKeyAsQuotaExceeded(ks, k) ==
    [ ks EXCEPT ![k] = [ status |-> "quota_exceeded", durationMs |-> 0, reason |-> "quota" ] ]

\* what getSmartKey('google', 'gemini-2.5-flash') can return: a credential
\* that is alive, or nothing
NoKey == "none"
getSmartKey(ks) == { k \in PoolKeys : ks[k].status = "alive" } \cup { NoKey }

-----------------------------------------------------------------------------
(* Provider errors *)

Includes(msg, w) == \E i \in 1..Len(msg) : msg[i] = w

ToLowerWord(w) == IF w = "Quota" THEN "quota" ELSE w
toLowerCase(msg) == [ i \in 1..Len(msg) |-> ToLowerWord(msg[i]) ]

ErrorMessages ==
    { << "Request", "failed" >>,
      << "429", "status", "code" >>,
      << "quota", "exceeded" >>,
      << "Quota", "exceeded" >>,
      << "Too Many Requests" >> }

ErrorStatuses == { NoStatus, 400, 401, 403, 429, 500, 503 }

AllErrors == [ status : ErrorStatuses, message : ErrorMessages ]

\* errors the provider calls of the dispatcher are made to raise
DispatchErrors ==
    { [ status |-> NoStatus, message |-> << "Request", "failed" >> ],
      [ status |-> 429, message |-> << "Too Many Requests" >> ],
      [ status |-> 401, message |-> << "Request", "failed" >> ],
      [ status |-> 401, message |-> << "quota", "exceeded" >> ] }

\* completion.choices[0] of a completion without choices (a TypeError)
NoChoicesError == [ status |-> NoStatus, message |-> << "Request", "failed" >> ]

\* first condition of handleAiError (line 1061)
IsRateLimit(e) ==
    \/ e.status = 429
    \/ Includes(e.message, "429")
    \/ Includes(e.message, "quota")
    \/ Includes(e.message, "Too Many Requests")

\* the auth branch quarantining for the rate-limit duration
handleAiErrorShortAuth(ks, e, apiKey, modelName) ==
    IF IsRateLimit(e)
    THEN IF Includes(toLowerCase(e.message), "quota")
         THEN markKeyAsQuotaExceeded(ks, apiKey)
         ELSE markKeyAsDead(ks, apiKey, RateLimitMs, "rate_limit_" \o modelName)
    ELSE IF e.status = 401 \/ e.status = 403
         THEN markKeyAsDead(ks, apiKey, RateLimitMs, "auth_error")
    ELSE IF e.status >= 500
         THEN markKeyAsDead(ks, apiKey, RateLimitMs, "server_error")
    ELSE ks

\* const handleAiError = (error, apiKey, modelName) => ... (lines 1059-1072)
handleAiError(ks, e, apiKey, modelName) ==
    IF IsRateLimit(e)
    THEN IF Includes(toLowerCase(e.message), "quota")
         THEN markKeyAsQuotaExceeded(ks, apiKey)
         ELSE markKeyAsDead(ks, apiKey, RateLimitMs, "rate_limit_" \o modelName)
    ELSE IF e.status = 401 \/ e.status = 403
         THEN markKeyAsDead(ks, apiKey, AuthErrorMs, "auth_error")
    ELSE IF e.status >= 500
         THEN markKeyAsDead(ks, apiKey, RateLimitMs, "server_error")
    ELSE ks

NoFail == [ key |-> NoKey, status |-> NoStatus, message |-> << >> ]

-----------------------------------------------------------------------------
(* Media preprocessing: what one processImageWithVision / transcribeAudio   *)
(* call can come to.  res is the kind of value returned, acq the number of  *)
(* pooled credentials getSmartKey handed out during the call.               *)

VisionStages == 3   \* attempts 1..3 of the fallback strategy

\* stages s..3 of the chain, acq credentials acquired so far: the stage has
\* no key (next stage), has a key and fails (next stage), or succeeds
RECURSIVE VisionFrom(_, _)
VisionFrom(s, acq) ==
    IF s > VisionStages
    THEN { [ res |-> "sentinel", acq |-> acq ] }
    ELSE { [ res |-> "text", acq |-> acq + 1 ] }
           \cup VisionFrom(s + 1, acq) \cup VisionFrom(s + 1, acq + 1)

processImageWithVision ==
    { [ res |-> "download_failed", acq |-> 0 ] } \cup VisionFrom(1, 0)

AudioStages == 2    \* the two google entries of priorityChain; the
                    \* openrouter entry is skipped for the default voice model

\* Groq Whisper fallback (lines 1534-1564)
WhisperFallback(acq) ==
    { [ res |-> "placeholder", acq |-> acq ],
      [ res |-> "text", acq |-> acq + 1 ],
      [ res |-> "sentinel", acq |-> acq + 1 ] }

RECURSIVE AudioFrom(_, _)
AudioFrom(s, acq) ==
    IF s > AudioStages
    THEN WhisperFallback(acq)
    ELSE { [ res |-> "text", acq |-> acq + 1 ] }
           \cup AudioFrom(s + 1, acq) \cup AudioFrom(s + 1, acq + 1)

transcribeAudio ==
    { [ res |-> "download_failed", acq |-> 0 ] } \cup AudioFrom(1, 0)

\* no processImageWithVision / transcribeAudio / parser call is being followed
NoVision == [ at |-> "idle" ]
NoAudio == [ at |-> "idle" ]
NoParse == [ at |-> "idle" ]

\* let bestFreeModels = { text, vision, voice } as the module is loaded
DefaultBestFreeModels ==
    [ text |-> "meta-llama/llama-3.1-8b-instruct:free",
      vision |-> "qwen/qwen-2.5-vl-7b-instruct:free",
      voice |-> "meta-llama/llama-3.1-8b-instruct:free" ]

NoResolve == [ at |-> "idle" ]
NoRefresh == [ at |-> "idle" ]
NoCacheKey == [ at |-> "idle" ]
NoPool == [ at |-> "idle" ]

NoMedia == [ at |-> "idle" ]
NoRoute == [ at |-> "idle" ]
NoSettings == [ at |-> "idle" ]

\* no media preprocessing, route request or settings page is being followed
PagesAtRest ==
    /\ media = NoMedia
    /\ route = NoRoute
    /\ settings = NoSettings

\* the module-level services with no operation of theirs in progress
ServicesAtRest ==
    /\ resolver = NoResolve
    /\ bestFreeModels = DefaultBestFreeModels
    /\ refresh = NoRefresh
    /\ cache = NoCacheKey
    /\ pool = NoPool
    /\ PagesAtRest

-----------------------------------------------------------------------------
(* generateReply: configuration *)

\* only an explicit true counts as managed mode
useCheapEngineStrict == pageConfig.cheap_engine = "true"

\* const useCheapEngine = pageConfig.cheap_engine !== false (line 628)
useCheapEngine == pageConfig.cheap_engine # "false"

\* dynamicProvider keeps its initial value; the Command API override is read
\* only in cheap-engine mode, where no branch of the dispatch depends on it
dynamicProvider == "openrouter"

\* userProvider || (useCheapEngine ? dynamicProvider : 'gemini')
defaultProvider ==
    OrElse(pageConfig.ai, IF useCheapEngine THEN dynamicProvider ELSE "gemini")

isOurOwnProvider == defaultProvider = "salesmanchatbot" \/ defaultProvider = "system"

\* a string api_key is truthy when it is present and not ""
ApiKeyTruthy == pageConfig.api_key # << >> /\ pageConfig.api_key # << "" >>

responseFormat == IF pageConfig.is_external_api THEN Undef ELSE "json_object"

\* guard of the SalesmanChatbot own-API path (line 921)
OwnApiGuard ==
    ~useCheapEngine /\ defaultProvider = "salesmanchatbot" /\ ApiKeyTruthy

\* the cheap-engine test of the guard inverted
Phase1GuardInverted ==
    /\ pageConfig.cheap_engine # "false"
    /\ pageConfig.api_key # << >> /\ pageConfig.api_key # << "" >>
    /\ pageConfig.api_key # << "MANAGED_SECRET_KEY" >>

\* guard of Phase 1 (line 955)
Phase1Guard ==
    /\ ~useCheapEngine
    /\ ~isOurOwnProvider
    /\ ApiKeyTruthy
    /\ pageConfig.api_key # << "MANAGED_SECRET_KEY" >>

\* pageConfig.api_key.split(',').map(k => k.trim()).filter(k => k)
SplitUserKeys ==
    SeqFilterNonEmpty([ i \in 1..Len(pageConfig.api_key) |-> Trim(pageConfig.api_key[i]) ])

\* model the user-key calls are sent to: pageConfig.chatmodel || defaultModel,
\* with no model chosen on the page (lines 797-808 set the default)
defaultModel == "gemini-2.5-flash"

SwarmModel == "gemini-2.5-flash"

MaxSwarmAttempts == 3

\* an entry of the call log: phase 0 is the SalesmanChatbot own API, 1 a user
\* key, 2 a pooled key; status is 200 for a call that returned
Call(phase, cred, model, fmt, n, status) ==
    [ phase |-> phase, cred |-> cred, model |-> model, fmt |-> fmt,
      nmsgs |-> n, status |-> status ]

CallsOfPhase(p) == { j \in 1..Len(calls) : calls[j].phase = p }

\* result built by the catch of a Phase 1 attempt (lines 1042-1054): the
\* object literal reads modelToUse, a let of the try block that is not in
\* scope in the catch block, so building it raises a ReferenceError
Phase1CatchResult(e) == Thrown

\* the guard left out: control always goes on to the swarm
IsolationGuardDropped == FALSE

\* if (userKeyAttempted) of line 1075
IsolationGuard == userKeyAttempted

\* the second response handled like the first one: a search tool call in it
\* starts another search
ReinvokeNextHonoursTool(c) ==
    IF extractJsonFromAiResponse(c) /\ IsSearchToolCall(c) THEN "p1search" ELSE "done"

\* where control goes after the second completion of the Phase 1 tool
\* handling: parsed2 is spread and returned, its tool field is not examined
ReinvokeNext(c) == "done"

\* the loop bound off by one
SwarmLoopContinuesInclusive == swarmI <= MaxSwarmAttempts

\* i < 3 of for (let i = 0; i < 3; i++)
SwarmLoopContinues == swarmI < MaxSwarmAttempts

-----------------------------------------------------------------------------
(* generateReply: actions *)

Init ==
    /\ pageConfig \in PageConfigs
    /\ history \in Histories
    /\ imagesLeft \in 0..MaxMedia
    /\ audioLeft \in 0..MaxMedia
    /\ pc = "media"
    /\ messages = << >>
    /\ userKeyAttempted = FALSE
    /\ userKeys = << >>
    /\ curKey = NoKey
    /\ swarmI = 0
    /\ rawContent = NoContent
    /\ keyState = [ k \in PoolKeys |-> Alive ]
    /\ acquires = [ media |-> 0, swarmGet |-> 0, swarm |-> 0 ]
    /\ calls = << >>
    /\ searches = 0
    /\ lastFail = NoFail
    /\ result = Pending
    /\ vision = NoVision
    /\ audio = NoAudio
    /\ parser = NoParse
    /\ ServicesAtRest

\* one element of Promise.all(imageUrls.map(processImageWithVision))
PreprocessImage ==
    /\ pc = "media"
    /\ imagesLeft > 0
    /\ \E o \in processImageWithVision :
          acquires' = [ acquires EXCEPT !.media = @ + o.acq ]
    /\ imagesLeft' = imagesLeft - 1
    /\ UNCHANGED << serviceVars, vision, audio, parser, pageConfig, history, audioLeft, pc, messages, userKeyAttempted,
                    userKeys, curKey, swarmI, rawContent, keyState, calls,
                    searches, lastFail, result >>

\* one element of Promise.all(audioUrls.map(transcribeAudio)), after the images
PreprocessAudio ==
    /\ pc = "media"
    /\ imagesLeft = 0
    /\ audioLeft > 0
    /\ \E o \in transcribeAudio :
          acquires' = [ acquires EXCEPT !.media = @ + o.acq ]
    /\ audioLeft' = audioLeft - 1
    /\ UNCHANGED << serviceVars, vision, audio, parser, pageConfig, history, imagesLeft, pc, messages, userKeyAttempted,
                    userKeys, curKey, swarmI, rawContent, keyState, calls,
                    searches, lastFail, result >>

\* messages = [system, ...history, user] (lines 826-830 and 910-914)
BuildMessages ==
    /\ pc = "media"
    /\ imagesLeft = 0
    /\ audioLeft = 0
    /\ messages' = << "system" >> \o history \o << "user" >>
    /\ pc' = "dispatch"
    /\ UNCHANGED << serviceVars, vision, audio, parser, pageConfig, history, imagesLeft, audioLeft, userKeyAttempted,
                    userKeys, curKey, swarmI, rawContent, keyState, acquires,
                    calls, searches, lastFail, result >>

\* SPECIAL PATH: the SalesmanChatbot own API (lines 921-951)
SalesmanOwnApi ==
    /\ pc = "dispatch"
    /\ OwnApiGuard
    /\ \E out \in { "text", "empty", "throw" } :
          /\ calls' = Append(calls, Call(0, "api_key", "salesmanchatbot-pro", Undef,
                                         Len(messages), IF out = "throw" THEN NoStatus ELSE 200))
          /\ CASE out = "text" -> result' = ReplyResult("own api answer") /\ pc' = "done"
               [] out = "empty" -> result' = result /\ pc' = "phase1"
               [] out = "throw" -> result' = ErrorResult("SalesmanChatbot API Error") /\ pc' = "done"
    /\ UNCHANGED << serviceVars, vision, audio, parser, pageConfig, history, imagesLeft, audioLeft, messages,
                    userKeyAttempted, userKeys, curKey, swarmI, rawContent,
                    keyState, acquires, searches, lastFail >>

\* control is at the Phase 1 condition of line 955
AtPhase1 == pc = "phase1" \/ (pc = "dispatch" /\ ~OwnApiGuard)

\* PHASE 1 entry: flag, split and shuffle (lines 955-962)
Phase1Enter ==
    /\ AtPhase1
    /\ Phase1Guard
    /\ userKeyAttempted' = TRUE
    /\ userKeys' \in Perms(SplitUserKeys)
    /\ pc' = "p1loop"
    /\ UNCHANGED << serviceVars, vision, audio, parser, pageConfig, history, imagesLeft, audioLeft, messages, curKey,
                    swarmI, rawContent, keyState, acquires, calls, searches,
                    lastFail, result >>

\* what a completion with content c leads to, before any tool handling:
\* the parsed object spread into the result, or the text fallback
ParsedResult(c) ==
    IF extractJsonFromAiResponse(c) THEN SpreadResult(c) ELSE FallbackResult(c)

\* one iteration of for (const currentKey of userKeys) (lines 964-1055)
Phase1Attempt ==
    /\ pc = "p1loop"
    /\ userKeys # << >>
    /\ LET k == Head(userKeys) IN
       \/ \E e \in DispatchErrors :
             /\ calls' = Append(calls, Call(1, k, defaultModel, responseFormat, Len(messages), e.status))
             /\ result' = Phase1CatchResult(e)
             /\ pc' = "done"
             /\ UNCHANGED << userKeys, rawContent >>
       \/ /\ calls' = Append(calls, Call(1, k, defaultModel, responseFormat, Len(messages), 200))
          /\ userKeys' = Tail(userKeys)
          /\ UNCHANGED << pc, result, rawContent >>
       \/ \E c \in Contents :
             /\ calls' = Append(calls, Call(1, k, defaultModel, responseFormat, Len(messages), 200))
             /\ rawContent' = c
             /\ IF extractJsonFromAiResponse(c) /\ IsSearchToolCall(c)
                THEN pc' = "p1search" /\ result' = result
                ELSE pc' = "done" /\ result' = ParsedResult(c)
             /\ UNCHANGED userKeys
    /\ UNCHANGED << serviceVars, vision, audio, parser, pageConfig, history, imagesLeft, audioLeft, messages,
                    userKeyAttempted, curKey, swarmI, keyState, acquires,
                    searches, lastFail >>

\* only the search results pushed
ToolTurnsResultsOnly == << "system" >>

\* the two messages.push of lines 1013-1014: the tool call as an assistant
\* turn, then the search results as a system turn
ToolTurns == << "assistant", "system" >>

\* Phase 1 tool handling: the product search (lines 1007-1014)
Phase1ToolSearch ==
    /\ pc = "p1search"
    /\ searches' = searches + 1
    /\ \E out \in { "rows", "empty", "throw" } :
          IF out = "throw"
          THEN /\ result' = FallbackResult(rawContent)
               /\ pc' = "done"
               /\ UNCHANGED messages
          ELSE /\ messages' = messages \o ToolTurns
               /\ pc' = "p1call2"
               /\ UNCHANGED result
    /\ UNCHANGED << serviceVars, vision, audio, parser, pageConfig, history, imagesLeft, audioLeft, userKeyAttempted,
                    userKeys, curKey, swarmI, rawContent, keyState, acquires,
                    calls, lastFail >>

\* Phase 1 tool handling: the second completion (lines 1017-1030)
Phase1Reinvoke ==
    /\ pc = "p1call2"
    /\ LET k == Head(userKeys) IN
       \/ \E e \in DispatchErrors :
             /\ calls' = Append(calls, Call(1, k, defaultModel, "json_object", Len(messages), e.status))
             /\ result' = FallbackResult(rawContent)
             /\ pc' = "done"
       \/ \* completion2.choices[0] of a completion without choices throws
          /\ calls' = Append(calls, Call(1, k, defaultModel, "json_object", Len(messages), 200))
          /\ result' = FallbackResult(rawContent)
          /\ pc' = "done"
       \/ \E c \in Contents :
             /\ calls' = Append(calls, Call(1, k, defaultModel, "json_object", Len(messages), 200))
             /\ pc' = ReinvokeNext(c)
             /\ result' = IF extractJsonFromAiResponse(c)
                          THEN SpreadResult(c)
                          ELSE FallbackResult(rawContent)
    /\ UNCHANGED << serviceVars, vision, audio, parser, pageConfig, history, imagesLeft, audioLeft, messages,
                    userKeyAttempted, userKeys, curKey, swarmI, rawContent,
                    keyState, acquires, searches, lastFail >>

\* Phase 2 entry: the strict-isolation return or the swarm (lines 1075-1085)
Phase2Entry ==
    /\ \/ pc = "p1loop" /\ userKeys = << >>
       \/ AtPhase1 /\ ~Phase1Guard
    /\ IF IsolationGuard
       THEN /\ result' = ErrorResult("Your API Provider settings are incorrect")
            /\ pc' = "done"
       ELSE /\ result' = result
            /\ pc' = "swarm"
    /\ UNCHANGED << serviceVars, vision, audio, parser, pageConfig, history, imagesLeft, audioLeft, messages,
                    userKeyAttempted, userKeys, curKey, swarmI, rawContent,
                    keyState, acquires, calls, searches, lastFail >>

\* swarm loop: keyService.getSmartKey and its checks (lines 1088-1097, 1175)
SwarmAcquire ==
    /\ pc = "swarm"
    /\ SwarmLoopContinues
    /\ \/ \E k \in getSmartKey(keyState) :
             IF k = NoKey
             THEN /\ result' = NullResult
                  /\ pc' = "done"
                  /\ acquires' = [ acquires EXCEPT !.swarmGet = @ + 1 ]
                  /\ UNCHANGED << curKey, swarmI >>
             ELSE /\ curKey' = k
                  /\ pc' = "swarmCall"
                  /\ acquires' = [ acquires EXCEPT !.swarmGet = @ + 1, !.swarm = @ + 1 ]
                  /\ UNCHANGED << result, swarmI >>
       \/ /\ swarmI' = swarmI + 1
          /\ acquires' = [ acquires EXCEPT !.swarmGet = @ + 1 ]
          /\ UNCHANGED << curKey, pc, result >>
    /\ UNCHANGED << serviceVars, vision, audio, parser, pageConfig, history, imagesLeft, audioLeft, messages,
                    userKeyAttempted, userKeys, rawContent, keyState, calls,
                    searches, lastFail >>

\* swarm loop: the completion and its failure handling (lines 1106-1173)
SwarmCall ==
    /\ pc = "swarmCall"
    /\ \/ \E e \in DispatchErrors \cup { NoChoicesError } :
             /\ calls' = Append(calls, Call(2, curKey, SwarmModel, responseFormat, Len(messages), e.status))
             /\ keyState' = handleAiError(keyState, e, curKey, SwarmModel)
             /\ swarmI' = swarmI + 1
             /\ pc' = "swarm"
             /\ UNCHANGED << result, rawContent >>
       \/ \E c \in Contents :
             /\ calls' = Append(calls, Call(2, curKey, SwarmModel, responseFormat, Len(messages), 200))
             /\ rawContent' = c
             /\ IF extractJsonFromAiResponse(c) /\ IsSearchToolCall(c)
                THEN pc' = "swarmSearch" /\ result' = result
                ELSE pc' = "done" /\ result' = ParsedResult(c)
             /\ UNCHANGED << keyState, swarmI >>
    /\ UNCHANGED << serviceVars, vision, audio, parser, pageConfig, history, imagesLeft, audioLeft, messages,
                    userKeyAttempted, userKeys, curKey, acquires, searches,
                    lastFail >>

\* swarm tool handling (lines 1122-1157): rows give a synthesized reply,
\* no rows fall through to the spread of the parsed tool call
SwarmToolSearch ==
    /\ pc = "swarmSearch"
    /\ searches' = searches + 1
    /\ pc' = "done"
    /\ \E out \in { "rows", "empty", "throw" } :
          result' = CASE out = "rows" -> ReplyResult("Item 1: name. price")
                      [] out = "empty" -> SpreadResult(rawContent)
                      [] out = "throw" -> FallbackResult(rawContent)
    /\ UNCHANGED << serviceVars, vision, audio, parser, pageConfig, history, imagesLeft, audioLeft, messages,
                    userKeyAttempted, userKeys, curKey, swarmI, rawContent,
                    keyState, acquires, calls, lastFail >>

\* the loop ran out of attempts: return null (lines 1180-1181)
SwarmExhausted ==
    /\ pc = "swarm"
    /\ ~SwarmLoopContinues
    /\ result' = NullResult
    /\ pc' = "done"
    /\ UNCHANGED << serviceVars, vision, audio, parser, pageConfig, history, imagesLeft, audioLeft, messages,
                    userKeyAttempted, userKeys, curKey, swarmI, rawContent,
                    keyState, acquires, calls, searches, lastFail >>

Next ==
    \/ PreprocessImage
    \/ PreprocessAudio
    \/ BuildMessages
    \/ SalesmanOwnApi
    \/ Phase1Enter
    \/ Phase1Attempt
    \/ Phase1ToolSearch
    \/ Phase1Reinvoke
    \/ Phase2Entry
    \/ SwarmAcquire
    \/ SwarmCall
    \/ SwarmToolSearch
    \/ SwarmExhausted

Spec == Init /\ [][Next]_vars

-----------------------------------------------------------------------------
(* handleAiError on its own: any error, any key of the pool *)

InitErr ==
    /\ pageConfig = [ cheap_engine |-> "true", api_key |-> << >>, ai |-> Undef,
                      is_external_api |-> FALSE ]
    /\ history = << >>
    /\ imagesLeft = 0
    /\ audioLeft = 0
    /\ pc = "handleAiError"
    /\ messages = << >>
    /\ userKeyAttempted = FALSE
    /\ userKeys = << >>
    /\ curKey = NoKey
    /\ swarmI = 0
    /\ rawContent = NoContent
    /\ keyState = [ k \in PoolKeys |-> Alive ]
    /\ acquires = [ media |-> 0, swarmGet |-> 0, swarm |-> 0 ]
    /\ calls = << >>
    /\ searches = 0
    /\ lastFail = NoFail
    /\ result = Pending
    /\ vision = NoVision
    /\ audio = NoAudio
    /\ parser = NoParse
    /\ ServicesAtRest

ApplyHandleAiError ==
    /\ pc = "handleAiError"
    /\ \E e \in AllErrors, k \in PoolKeys :
          /\ keyState' = handleAiError(keyState, e, k, SwarmModel)
          /\ lastFail' = [ key |-> k, status |-> e.status, message |-> e.message ]
    /\ UNCHANGED << serviceVars, vision, audio, parser, pageConfig, history, imagesLeft, audioLeft, pc, messages,
                    userKeyAttempted, userKeys, curKey, swarmI, rawContent,
                    acquires, calls, searches, result >>

NextErr == ApplyHandleAiError

SpecErr == InitErr /\ [][NextErr]_vars

-----------------------------------------------------------------------------
(* The other specifications follow one function call on its own; they leave *)
(* the variables of generateReply at rest.                                  *)

dispatcherVars ==
    << pageConfig, history, imagesLeft, audioLeft, pc, messages, userKeyAttempted,
       userKeys, curKey, swarmI, rawContent, keyState, acquires, calls,
       searches, lastFail, result >>

DispatcherAtRest(at) ==
    /\ pageConfig = [ cheap_engine |-> "true", api_key |-> << >>, ai |-> Undef,
                      is_external_api |-> FALSE ]
    /\ history = << >>
    /\ imagesLeft = 0
    /\ audioLeft = 0
    /\ pc = at
    /\ messages = << >>
    /\ userKeyAttempted = FALSE
    /\ userKeys = << >>
    /\ curKey = NoKey
    /\ swarmI = 0
    /\ rawContent = NoContent
    /\ keyState = [ k \in PoolKeys |-> Alive ]
    /\ acquires = [ media |-> 0, swarmGet |-> 0, swarm |-> 0 ]
    /\ calls = << >>
    /\ searches = 0
    /\ lastFail = NoFail
    /\ result = Pending

-----------------------------------------------------------------------------
(* processImageWithVision, stage by stage.  An outbound request is in       *)
(* flight between its send and its settlement: the endpoint answers it      *)
(* (answers) or never does, and axios rejects it after timeoutMs when a     *)
(* timeout option was given (timeoutMs = 0 stands for no timeout option).   *)

\* imageUrl: a data URI, a data URI without a comma, an http(s) URL
VisionUrls == { "data:image/png;base64,AAAA", "data:image/png;base64", "https://cdn/img.jpg" }

\* customOptions: only a prompt, an OpenRouter priority model, another provider
VisionOptions ==
    { [ provider |-> Undef, model |-> Undef ],
      [ provider |-> "openrouter", model |-> "x-ai/grok-vision" ],
      [ provider |-> "google", model |-> "gemini-pro-vision" ] }

PriorityStage == 0

\* if (customOptions?.provider === 'openrouter' && customOptions?.model)
HasPriorityStage(o) == o.provider = "openrouter" /\ Truthy(o.model)

FirstVisionStage(o) == IF HasPriorityStage(o) THEN PriorityStage ELSE 1

\* provider and model of a stage
VisionStageProvider(s) == IF s \in { 1, 2 } THEN "google" ELSE "openrouter"

VisionStageModel(s, o) ==
    CASE s = PriorityStage -> o.model
      [] s = 1 -> "gemini-2.5-flash"
      [] s = 2 -> "gemini-2.5-flash-lite"
      [] OTHER -> "qwen/qwen-2.5-vl-7b-instruct:free"

ImageDownloadTimeoutMs == 10000

\* the timeout option of the stage's axios.post
VisionStageTimeoutMs(s) == IF s \in { PriorityStage, 1 } THEN 20000 ELSE 0

\* usage: total_tokens || 0
UsageValues == { 0, 7 }

VisionPending == [ kind |-> "pending", text |-> "", usage |-> 0 ]

\* return `Image found but failed to download/decode. Reason: ...` (a string)
VisionDownloadFailed ==
    [ kind |-> "string", text |-> "Image found but failed to download/decode. Reason:", usage |-> 0 ]

VisionUnavailable ==
    [ kind |-> "record",
      text |-> "Image found but analysis unavailable due to technical errors.",
      usage |-> 0 ]

\* return { text: result, usage: usage }
VisionDescription(model, usage) ==
    [ kind |-> "record", text |-> "description by " \o model, usage |-> usage ]

\* a failed stage ends the whole chain
AfterStageFailureAborts(s) == VisionStages + 1

\* the catch block of a stage records the error and control goes on to the
\* next attempt
AfterStageFailure(s) == s + 1

InitVision ==
    /\ DispatcherAtRest("processImageWithVision")
    /\ audio = NoAudio
    /\ parser = NoParse
    /\ ServicesAtRest
    /\ \E u \in VisionUrls, o \in VisionOptions :
          vision = [ at |-> "pre", url |-> u, opts |-> o, stage |-> FirstVisionStage(o),
                     trail |-> << >>, timeoutMs |-> 0, answers |-> FALSE,
                     res |-> VisionPending ]

\* 0. Pre-process Image: decode a data URI or start the download
VisionPreprocess ==
    /\ vision.at = "pre"
    /\ vision' =
         CASE vision.url = "data:image/png;base64,AAAA" ->
                [ vision EXCEPT !.at = "stage" ]
           [] vision.url = "data:image/png;base64" ->
                [ vision EXCEPT !.at = "returned", !.res = VisionDownloadFailed ]
           [] OTHER ->
                [ vision EXCEPT !.at = "downloading", !.timeoutMs = ImageDownloadTimeoutMs ]
    /\ UNCHANGED << audio, parser >>
    /\ UNCHANGED << serviceVars, dispatcherVars >>

\* whether the endpoint of the request in flight will answer it
VisionEndpoint ==
    /\ vision.at \in { "downloading", "calling" }
    /\ ~vision.answers
    /\ vision' = [ vision EXCEPT !.answers = TRUE ]
    /\ UNCHANGED << audio, parser >>
    /\ UNCHANGED << serviceVars, dispatcherVars >>

\* axios.get settles: the image, or an error status
VisionDownloadSettles ==
    /\ vision.at = "downloading"
    /\ vision.answers
    /\ \E ok \in BOOLEAN :
          vision' = IF ok
                    THEN [ vision EXCEPT !.at = "stage", !.answers = FALSE, !.timeoutMs = 0 ]
                    ELSE [ vision EXCEPT !.at = "returned", !.answers = FALSE,
                                         !.timeoutMs = 0, !.res = VisionDownloadFailed ]
    /\ UNCHANGED << audio, parser >>
    /\ UNCHANGED << serviceVars, dispatcherVars >>

VisionStageFailed(outcome) ==
    [ vision EXCEPT !.at = "stage",
                    !.trail = Append(@, [ stage |-> vision.stage,
                                          model |-> VisionStageModel(vision.stage, vision.opts),
                                          outcome |-> outcome ]),
                    !.stage = AfterStageFailure(vision.stage),
                    !.answers = FALSE, !.timeoutMs = 0 ]

\* the timeout of the request in flight expires
VisionTimeout ==
    /\ vision.at \in { "downloading", "calling" }
    /\ vision.timeoutMs > 0
    /\ vision' = IF vision.at = "downloading"
                 THEN [ vision EXCEPT !.at = "returned", !.answers = FALSE,
                                      !.timeoutMs = 0, !.res = VisionDownloadFailed ]
                 ELSE VisionStageFailed("timeout")
    /\ UNCHANGED << audio, parser >>
    /\ UNCHANGED << serviceVars, dispatcherVars >>

\* a stage begins: getSmartKey, then the request is sent
VisionStageStart ==
    /\ vision.at = "stage"
    /\ vision.stage <= VisionStages
    /\ \E key \in BOOLEAN :
          vision' = IF key
                    THEN [ vision EXCEPT !.at = "calling",
                                         !.timeoutMs = VisionStageTimeoutMs(vision.stage) ]
                    ELSE VisionStageFailed("nokey")
    /\ UNCHANGED << audio, parser >>
    /\ UNCHANGED << serviceVars, dispatcherVars >>

\* axios.post settles: a description, an empty answer, or an error
VisionStageSettles ==
    /\ vision.at = "calling"
    /\ vision.answers
    /\ \/ \E u \in UsageValues :
             vision' = [ vision EXCEPT
                           !.at = "returned",
                           !.trail = Append(@, [ stage |-> vision.stage,
                                                 model |-> VisionStageModel(vision.stage, vision.opts),
                                                 outcome |-> "ok" ]),
                           !.answers = FALSE, !.timeoutMs = 0,
                           !.res = VisionDescription(VisionStageModel(vision.stage, vision.opts), u) ]
       \/ \E outcome \in { "empty", "error" } : vision' = VisionStageFailed(outcome)
    /\ UNCHANGED << audio, parser >>
    /\ UNCHANGED << serviceVars, dispatcherVars >>

\* FINAL FAILURE: every attempt failed
VisionAllFailed ==
    /\ vision.at = "stage"
    /\ vision.stage > VisionStages
    /\ vision' = [ vision EXCEPT !.at = "returned", !.res = VisionUnavailable ]
    /\ UNCHANGED << audio, parser >>
    /\ UNCHANGED << serviceVars, dispatcherVars >>

NextVision ==
    \/ VisionPreprocess
    \/ VisionEndpoint
    \/ VisionDownloadSettles
    \/ VisionTimeout
    \/ VisionStageStart
    \/ VisionStageSettles
    \/ VisionAllFailed

SpecVision == InitVision /\ [][NextVision]_vars

\* the steps of the function itself are taken when they can be; nothing
\* obliges an endpoint to answer
VisionProgramStep ==
    \/ VisionPreprocess
    \/ VisionDownloadSettles
    \/ VisionTimeout
    \/ VisionStageStart
    \/ VisionStageSettles
    \/ VisionAllFailed

SpecVisionFair == SpecVision /\ WF_vars(VisionProgramStep)

-----------------------------------------------------------------------------
(* transcribeAudio, step by step *)

\* content-type header of the downloaded audio (Undef: no header)
AudioContentTypes ==
    { "audio/ogg; codecs=opus", "audio/mpeg", "audio/wav", "audio/aac",
      "application/octet-stream", Undef }

\* Map to Gemini-supported MIME types (lines 1468-1475)
AudioMimeType(contentType) ==
    CASE contentType = "audio/ogg; codecs=opus" -> "audio/ogg"
      [] contentType = "audio/mpeg" -> "audio/mp3"
      [] contentType = "audio/wav" -> "audio/wav"
      [] contentType = "audio/aac" -> "audio/aac"
      [] OTHER -> "audio/ogg"

\* bestFreeModels.voice: the default, or a Gemini model chosen by a refresh
VoiceModels == { "meta-llama/llama-3.1-8b-instruct:free", "google/gemini-2.0-flash-exp:free" }

IsGeminiOrClaude(model) == model = "google/gemini-2.0-flash-exp:free"

priorityChain(voice) ==
    << [ provider |-> "google", model |-> "gemini-2.5-flash" ],
       [ provider |-> "google", model |-> "gemini-2.5-flash-lite" ],
       [ provider |-> "openrouter", model |-> voice ] >>

AudioPending == [ kind |-> "pending", text |-> "", usage |-> 0 ]

\* return "[Audio Download Failed]" (a string)
AudioDownloadFailed == [ kind |-> "string", text |-> "[Audio Download Failed]", usage |-> 0 ]

\* return { text: "[Audio Message]", usage: 0 }
AudioNoWhisperKey == [ kind |-> "record", text |-> "[Audio Message]", usage |-> 0 ]

\* return { text: "[Audio Message (Transcription Failed)]", usage: 0 }
AudioTranscriptionFailed ==
    [ kind |-> "record", text |-> "[Audio Message (Transcription Failed)]", usage |-> 0 ]

AudioTranscript(by, usage) ==
    [ kind |-> "record", text |-> "transcript by " \o by, usage |-> usage ]

AudioStep(model, lang, outcome) == [ model |-> model, lang |-> lang, outcome |-> outcome ]

InitAudio ==
    /\ DispatcherAtRest("transcribeAudio")
    /\ vision = NoVision
    /\ parser = NoParse
    /\ ServicesAtRest
    /\ \E v \in VoiceModels :
          audio = [ at |-> "download", voice |-> v, mimeType |-> Undef, i |-> 1,
                    trail |-> << >>, res |-> AudioPending ]

\* 1. Download Audio
AudioDownload ==
    /\ audio.at = "download"
    /\ \/ \E ct \in AudioContentTypes :
             audio' = [ audio EXCEPT !.at = "chain", !.mimeType = AudioMimeType(ct) ]
       \/ audio' = [ audio EXCEPT !.at = "returned", !.res = AudioDownloadFailed ]
    /\ UNCHANGED << vision, parser >>
    /\ UNCHANGED << serviceVars, dispatcherVars >>

\* 2. one iteration of for (const option of priorityChain)
AudioChainStep ==
    /\ audio.at = "chain"
    /\ audio.i <= Len(priorityChain(audio.voice))
    /\ LET option == priorityChain(audio.voice)[audio.i]
           next(outcome) ==
               [ audio EXCEPT !.i = @ + 1,
                              !.trail = Append(@, AudioStep(option.model, Undef, outcome)) ]
       IN  IF option.provider = "openrouter" /\ ~IsGeminiOrClaude(option.model)
           THEN audio' = next("skipped")
           ELSE \/ audio' = next("nokey")
                \/ /\ option.provider = "openrouter"
                   /\ audio' = next("skipped")
                \/ /\ option.provider = "google"
                   /\ \/ \E outcome \in { "empty", "error" } : audio' = next(outcome)
                      \/ \E u \in UsageValues :
                            audio' = [ audio EXCEPT
                                         !.at = "returned",
                                         !.trail = Append(@, AudioStep(option.model, Undef, "ok")),
                                         !.res = AudioTranscript(option.model, u) ]
    /\ UNCHANGED << vision, parser >>
    /\ UNCHANGED << serviceVars, dispatcherVars >>

\* 3. Fallback to Groq Whisper
AudioWhisper ==
    /\ audio.at = "chain"
    /\ audio.i > Len(priorityChain(audio.voice))
    /\ \/ audio' = [ audio EXCEPT
                       !.at = "returned",
                       !.trail = Append(@, AudioStep("whisper-large-v3", Undef, "nokey")),
                       !.res = AudioNoWhisperKey ]
       \/ audio' = [ audio EXCEPT
                       !.at = "returned",
                       !.trail = Append(@, AudioStep("whisper-large-v3", "bn", "ok")),
                       !.res = AudioTranscript("whisper-large-v3", 0) ]
       \/ \E outcome \in { "empty", "error", "timeout" } :
             audio' = [ audio EXCEPT
                          !.at = "returned",
                          !.trail = Append(@, AudioStep("whisper-large-v3", "bn", outcome)),
                          !.res = AudioTranscriptionFailed ]
    /\ UNCHANGED << vision, parser >>
    /\ UNCHANGED << serviceVars, dispatcherVars >>

NextAudio ==
    \/ AudioDownload
    \/ AudioChainStep
    \/ AudioWhisper

SpecAudio == InitAudio /\ [][NextAudio]_vars

-----------------------------------------------------------------------------
(* extractJsonFromAiResponse on texts.  A text is a sequence of tokens, each *)
(* standing for the run of characters it spells; JSON.stringify and          *)
(* JSON.parse are given for objects {reply, images, sentiment} with a string *)
(* reply, an array of strings images and a string sentiment.                 *)

Quote == "\""
KeyReply == "\"reply\":"
KeyImages == "\"images\":"
KeySentiment == "\"sentiment\":"
Newline == "\n"
Fence == "<fence>"            \* three backquotes
FenceJson == "<fence>json"    \* three backquotes followed by json

\* what the text of a reply is made of
ReplyTokens == { "hi", "<think>", "</think>", Fence, "{", "}" }

RECURSIVE SeqsUpTo(_, _)
SeqsUpTo(S, n) ==
    IF n = 0 THEN { << >> }
    ELSE SeqsUpTo(S, n - 1)
           \cup { Append(q, x) : q \in { r \in SeqsUpTo(S, n - 1) : Len(r) = n - 1 }, x \in S }

Payloads ==
    [ reply : SeqsUpTo(ReplyTokens, MaxReplyLen),
      images : { << >>, << "https://cdn/a.jpg" >> },
      sentiment : { "positive", "neutral" } ]

\* the reasoning a model puts between <think> and </think>
Reasonings == { << >>, << "hmm", "{" >>, << Fence, "}" >> }

\* JSON.stringify(P)
Stringify(P) ==
    << "{", KeyReply, Quote >> \o P.reply \o << Quote, ",", KeyImages, "[" >>
       \o (IF P.images = << >> THEN << >> ELSE << Quote, P.images[1], Quote >>)
       \o << "]", ",", KeySentiment, Quote, P.sentiment, Quote, "}" >>

\* P in reasoning delimiters and a json code fence
Wrap(P, reasoning) ==
    << "<think>" >> \o reasoning \o << "</think>", Newline, FenceJson, Newline >>
       \o Stringify(P) \o << Newline, Fence >>

NoValue == [ reply |-> << >>, images |-> << >>, sentiment |-> "" ]
ParseError == [ ok |-> FALSE, value |-> NoValue ]

\* JSON.parse
JSONparse(t) ==
    LET n == Len(t)
        closing == { q \in 4..n : t[q] = Quote }
    IN  IF n < 12 \/ t[1] # "{" \/ t[2] # KeyReply \/ t[3] # Quote \/ closing = {}
        THEN ParseError
        ELSE LET q == CHOOSE c \in closing : \A d \in closing : c <= d
                 withImage == q + 4 <= n /\ t[q + 4] = Quote
                 m == IF withImage THEN q + 8 ELSE q + 5
             IN  IF /\ m + 5 = n
                    /\ t[q + 1] = "," /\ t[q + 2] = KeyImages /\ t[q + 3] = "["
                    /\ t[m - 1] = "]"
                    /\ withImage => (t[q + 6] = Quote /\ t[q + 5] \notin { Quote, "]" })
                    /\ t[m] = "," /\ t[m + 1] = KeySentiment /\ t[m + 2] = Quote
                    /\ t[m + 3] # Quote /\ t[m + 4] = Quote /\ t[m + 5] = "}"
                 THEN [ ok |-> TRUE,
                        value |-> [ reply |-> SubSeq(t, 4, q - 1),
                                    images |-> IF withImage THEN << t[q + 5] >> ELSE << >>,
                                    sentiment |-> t[m + 3] ] ]
                 ELSE ParseError

\* rawContent.replace(/<think>[\s\S]*?<\/think>/gi, '')
RECURSIVE StripThink(_)
StripThink(t) ==
    IF t = << >> THEN << >>
    ELSE LET ends == { j \in 2..Len(t) : t[j] = "</think>" } IN
         IF Head(t) = "<think>" /\ ends # {}
         THEN LET j == CHOOSE e \in ends : \A d \in ends : e <= d
              IN  StripThink(SubSeq(t, j + 1, Len(t)))
         ELSE << Head(t) >> \o StripThink(Tail(t))

IsFence(x) == x \in { FenceJson, Fence }
IsNotFence(x) == ~IsFence(x)

\* .replace(/```json/gi, '').replace(/```/g, '')
StripFences(t) == SelectSeq(t, IsNotFence)

\* String.prototype.trim on a text
RECURSIVE TrimText(_)
TrimText(t) ==
    IF t = << >> THEN << >>
    ELSE IF Head(t) = Newline THEN TrimText(Tail(t))
    ELSE IF t[Len(t)] = Newline THEN TrimText(SubSeq(t, 1, Len(t) - 1))
    ELSE t

\* 3. Find the first '{' and last '}' to isolate JSON object
IsolateObject(t) ==
    LET opens == { i \in 1..Len(t) : t[i] = "{" }
        closes == { i \in 1..Len(t) : t[i] = "}" }
    IN  IF opens = {} \/ closes = {} THEN t
        ELSE LET firstOpen == CHOOSE i \in opens : \A k \in opens : i <= k
                 lastClose == CHOOSE i \in closes : \A k \in closes : i >= k
             IN  IF lastClose > firstOpen THEN SubSeq(t, firstOpen, lastClose) ELSE t

\* extractJsonFromAiResponse(rawContent) for a text: ok = FALSE stands for
\* the exception of the raw parse
extractJsonFromAiResponseText(raw) ==
    LET cleaned == IsolateObject(TrimText(StripFences(TrimText(StripThink(raw)))))
        first == JSONparse(cleaned)
    IN  IF first.ok THEN first ELSE JSONparse(raw)

NotParsed == [ ok |-> FALSE, value |-> NoValue ]

InitParser ==
    /\ DispatcherAtRest("extractJsonFromAiResponse")
    /\ vision = NoVision
    /\ audio = NoAudio
    /\ ServicesAtRest
    /\ \E P \in Payloads, r \in Reasonings :
          parser = [ at |-> "input", payload |-> P, reasoning |-> r,
                     plainDone |-> FALSE, plain |-> NotParsed,
                     wrappedDone |-> FALSE, wrapped |-> NotParsed ]

\* extractJsonFromAiResponse(JSON.stringify(P))
ParsePlain ==
    /\ parser.at = "input"
    /\ ~parser.plainDone
    /\ parser' = [ parser EXCEPT
                     !.plainDone = TRUE,
                     !.plain = extractJsonFromAiResponseText(Stringify(parser.payload)),
                     !.at = IF parser.wrappedDone THEN "done" ELSE "input" ]
    /\ UNCHANGED << vision, audio >>
    /\ UNCHANGED << serviceVars, dispatcherVars >>

\* extractJsonFromAiResponse of the wrapped text
ParseWrapped ==
    /\ parser.at = "input"
    /\ ~parser.wrappedDone
    /\ parser' = [ parser EXCEPT
                     !.wrappedDone = TRUE,
                     !.wrapped = extractJsonFromAiResponseText(Wrap(parser.payload, parser.reasoning)),
                     !.at = IF parser.plainDone THEN "done" ELSE "input" ]
    /\ UNCHANGED << vision, audio >>
    /\ UNCHANGED << serviceVars, dispatcherVars >>

NextParser ==
    \/ ParsePlain
    \/ ParseWrapped

SpecParser == InitParser /\ [][NextParser]_vars

-----------------------------------------------------------------------------
(* Properties *)

IsNullish(v) == v \in { Null, Undef }

\* the request returned an error result: error set, reply null
IsErrorResult(r) == r.kind = "value" /\ ~IsNullish(r.error) /\ r.reply = Null

\* inference calls made after a tool search (the sequence sent has the two
\* added turns)
Reinvocations == { j \in 1..Len(calls) : calls[j].nmsgs = Len(history) + 4 }

InSwarm == pc \in { "swarm", "swarmCall", "swarmSearch" }

Dead24hAuth == [ status |-> "dead", durationMs |-> AuthErrorMs, reason |-> "auth_error" ]

\* C1: once Phase 1 has been entered (userKeyAttempted = true) the managed
\* swarm is never run in that request, whatever the outcome of the user-key
\* attempts: the swarm loop's getSmartKey is called zero times and no
\* inference call is made with a pooled credential.
C1_NoSwarmAfterPhase1 ==
    userKeyAttempted =>
        /\ acquires.swarmGet = 0
        /\ acquires.swarm = 0
        /\ CallsOfPhase(2) = {}
        /\ ~InSwarm

\* Phase 1 ran out of keys after an attempt that returned no choices, and the
\* request ended with the isolation error
C1_Witness ==
    /\ pc = "done"
    /\ userKeyAttempted
    /\ CallsOfPhase(1) # {}
    /\ userKeys = << >>
    /\ IsErrorResult(result)

\* C2: when a Phase 1 user-key inference call fails, generateReply completes
\* normally with error # null and reply = null; it neither throws nor
\* returns a reply.
C2_Phase1FailureIsErrorResult ==
    (pc = "done" /\ \E j \in CallsOfPhase(1) : calls[j].status # 200)
        => IsErrorResult(result)

\* C3: for a page in own-key mode with a user credential present, no pooled
\* credential is acquired through getSmartKey at any point of the request,
\* media preprocessing included.
C3_OwnKeyNeverAcquiresPooled ==
    (~useCheapEngine /\ ApiKeyTruthy) => acquires.media = 0 /\ acquires.swarm = 0

\* C4: a request for a page in own-key mode whose api_key is missing or
\* empty ends with a configuration error before any provider call; it does
\* not proceed to the managed swarm.
C4_MissingKeyFailsFast ==
    (~useCheapEngine /\ ~ApiKeyTruthy) =>
        /\ ~InSwarm
        /\ calls = << >>
        /\ pc = "done" => IsErrorResult(result)

\* C5: every value returned by generateReply that carries a non-null error
\* has reply = null, on every path.
C5_ErrorImpliesNullReply ==
    (pc = "done" /\ result.kind = "value" /\ ~IsNullish(result.error))
        => IsNullish(result.reply)

\* C6: within one generateReply call at most one product search and at most
\* one inference re-invocation are made for a search tool call; after the
\* re-invocation no further search or inference call happens, even when the
\* second response is again a search tool call.
C6_OneSearchOneReinvocation ==
    /\ searches <= 1
    /\ Cardinality(Reinvocations) <= 1
    /\ \A j \in Reinvocations : j = Len(calls) /\ pc = "done"

\* the second response was again a search tool call and was returned as is
C6_Witness ==
    /\ pc = "done"
    /\ searches = 1
    /\ Reinvocations # {}
    /\ result.tool = "search_products"
    /\ Truthy(result.query)

\* C7: on the managed path a successful attempt whose output is a search
\* tool call runs the tool loop before returning: without rows inference is
\* re-invoked once, so the unanswered tool-call object is never returned.
C7_SwarmToolCallAnswered ==
    (pc = "done" /\ CallsOfPhase(2) # {} /\ searches = 1 /\ Reinvocations = {})
        => ~(result.kind = "value" /\ result.tool = "search_products")

\* C8: on the managed path at most 3 inference attempts are made, each
\* preceded by its own getSmartKey acquire and each sent to gemini-2.5-flash;
\* if no attempt succeeds (or no credential can be acquired) the result is null.
C8_SwarmBounded ==
    /\ Cardinality(CallsOfPhase(2)) <= 3
    /\ acquires.swarmGet <= 3
    /\ acquires.swarm <= acquires.swarmGet
    /\ acquires.swarm = Cardinality(CallsOfPhase(2)) + (IF pc = "swarmCall" THEN 1 ELSE 0)
    /\ \A j \in CallsOfPhase(2) : calls[j].model = "gemini-2.5-flash"
    /\ (pc = "done" /\ acquires.swarmGet > 0
            /\ \A j \in CallsOfPhase(2) : calls[j].status # 200)
          => result = NullResult

\* three pooled attempts were made, all failed, and the request returned null
C8_Witness ==
    /\ pc = "done"
    /\ Cardinality(CallsOfPhase(2)) = 3
    /\ acquires.swarm = 3
    /\ result = NullResult

\* C9: when a Phase 2 attempt fails with HTTP 401 or 403 the credential is
\* quarantined for 24 h and no further inference attempt is made within the
\* request.
C9_AuthErrorStopsRequest ==
    \A j \in CallsOfPhase(2) :
        calls[j].status \in { 401, 403 } =>
            /\ keyState[calls[j].cred] = Dead24hAuth
            /\ j = Len(calls)

\* C10: handleAiError applies the quarantine of the failure's class and only
\* that one; in particular every failure with status 401 or 403 gets the
\* 24 h auth_error quarantine, whatever its message text.
C10_QuarantineByClass ==
    lastFail.key # NoKey =>
        LET e == [ status |-> lastFail.status, message |-> lastFail.message ]
            mark == keyState[lastFail.key]
        IN  IF e.status \in { 401, 403 }
            THEN mark = Dead24hAuth
            ELSE IF IsRateLimit(e)
            THEN IF Includes(toLowerCase(e.message), "quota")
                 THEN mark.status = "quota_exceeded"
                 ELSE mark.status = "dead" /\ mark.durationMs = 60000
            ELSE IF e.status >= 500
            THEN mark.status = "dead" /\ mark.durationMs = 60000
                    /\ mark.reason = "server_error"
            ELSE TRUE

-----------------------------------------------------------------------------
(* Scenarios A and B *)

\* non-managed mode, the default provider, one user credential
ScenarioA ==
    /\ pageConfig.cheap_engine = "false"
    /\ pageConfig.ai = Undef
    /\ pageConfig.api_key # << "MANAGED_SECRET_KEY" >>
    /\ Len(SplitUserKeys) = 1

\* the credential answered with a completion that is not a tool call
AnsweredWithoutToolCall ==
    /\ Len(calls) >= 1
    /\ calls[1].status = 200
    /\ userKeys # << >>
    /\ ~IsSearchToolCall(rawContent)

C12_ScenarioB ==
    pageConfig.cheap_engine # "false" =>
        /\ ~userKeyAttempted
        /\ userKeys = << >>
        /\ pc \notin { "phase1", "p1loop", "p1search", "p1call2" }
        /\ \A j \in 1..Len(calls) :
              /\ calls[j].phase = 2
              /\ calls[j].cred \in PoolKeys
              /\ \A i \in 1..Len(pageConfig.api_key) :
                    calls[j].cred # Trim(pageConfig.api_key[i])
        /\ Cardinality(CallsOfPhase(2)) <= 3

\* a managed page that stores an api_key and names the SalesmanChatbot
\* provider was served by three pooled attempts
C12_Witness ==
    /\ pageConfig.cheap_engine = Undef
    /\ pageConfig.api_key = << "AIzaSyA" >>
    /\ pageConfig.ai = "salesmanchatbot"
    /\ pc = "done"
    /\ Cardinality(CallsOfPhase(2)) = 3

-----------------------------------------------------------------------------
(* The vision chain *)

VisionReturned == vision.at = "returned"

NoStageYielded == \A i \in 1..Len(vision.trail) : vision.trail[i].outcome # "ok"

\* C13: processImageWithVision never throws to its caller and, whenever no
\* stage yields a description, the case of an image reference that cannot be
\* downloaded or decoded included, returns the record {text: 'Image found but
\* analysis unavailable due to technical errors.', usage: 0}.
C13_VisionFailureIsSentinel ==
    /\ vision.res.kind # "throw"
    /\ (VisionReturned /\ NoStageYielded) => vision.res = VisionUnavailable

\* the stages in the order the chain is documented to follow
VisionStageOrder(o) ==
    IF HasPriorityStage(o) THEN << 0, 1, 2, 3 >> ELSE << 1, 2, 3 >>

VisionModelOrder(o) ==
    IF HasPriorityStage(o)
    THEN << o.model, "gemini-2.5-flash", "gemini-2.5-flash-lite",
            "qwen/qwen-2.5-vl-7b-instruct:free" >>
    ELSE << "gemini-2.5-flash", "gemini-2.5-flash-lite",
            "qwen/qwen-2.5-vl-7b-instruct:free" >>

C16_MediaCallReturns == <>(vision.at = "returned")

-----------------------------------------------------------------------------
(* The audio chain *)

NoTranscript == \A i \in 1..Len(audio.trail) : audio.trail[i].outcome # "ok"

\* C15: in transcribeAudio, once the generation-model priority chain is
\* exhausted without a transcript, Groq whisper is attempted with the
\* language hint 'bn'; on total failure (download failure, no key for any
\* stage, or every stage failing) the function returns one and the same
\* fixed sentinel, and it never throws.
C15_AudioFailureIsOneSentinel ==
    /\ audio.res.kind # "throw"
    /\ \A i \in 1..Len(audio.trail) :
          (audio.trail[i].model = "whisper-large-v3" /\ audio.trail[i].outcome # "nokey")
              => /\ audio.trail[i].lang = "bn"
                 /\ i = Len(priorityChain(audio.voice)) + 1
    /\ (audio.at = "returned" /\ NoTranscript) => audio.res = AudioTranscriptionFailed

-----------------------------------------------------------------------------
(* The response parser *)

\* C17: for every well-formed JSON object payload P with fields reply,
\* images, sentiment, extractJsonFromAiResponse(P) equals P, and
\* extractJsonFromAiResponse of P wrapped in <think>...</think> reasoning
\* delimiters and ```json code fences equals extractJsonFromAiResponse(P).
C17_ParserRoundTrip ==
    /\ parser.plainDone => parser.plain = [ ok |-> TRUE, value |-> parser.payload ]
    /\ parser.at = "done" => parser.wrapped = parser.plain

\* the second half of the claim on its own
WrappedParsesAsPlain == parser.at = "done" => parser.wrapped = parser.plain

\* the first half for payloads whose reply holds no delimiter or fence
PlainReplyRoundTrips ==
    (parser.plainDone /\ \A i \in 1..Len(parser.payload.reply) :
                            parser.payload.reply[i] \in { "hi", "{", "}" })
        => parser.plain = [ ok |-> TRUE, value |-> parser.payload ]

\* generateReply returned what it made of the first completion's content
\* (held in rawContent), no tool handling involved
CompletionHandled ==
    /\ pc = "done"
    /\ searches = 0
    /\ calls # << >>
    /\ LET last == calls[Len(calls)] IN
          /\ last.status = 200
          /\ last.phase \in { 1, 2 }
          /\ last.phase = 1 => userKeys # << >>

\* C18: when the raw model output of a successful attempt is not a JSON
\* object (bare text, text that is a valid JSON scalar or array included),
\* the dispatcher does not fail and returns a result whose reply is that
\* text verbatim.  Texts in which the "reply" pattern matches are left out:
\* for them the pattern's capture is the documented reply.
C18_BareTextIsReply ==
    (CompletionHandled /\ rawContent.json # "object" /\ ~Truthy(rawContent.rx))
        => /\ result.kind = "value"
           /\ result.reply = rawContent.raw

\* C19: when the parsed model output is an object without a reply field,
\* the returned reply is taken from the synonym fields response, text,
\* message (the first one present), on the Phase 1 and the Phase 2 path.
C19_SynonymFields ==
    (CompletionHandled /\ rawContent.json = "object" /\ ~Truthy(rawContent.reply))
        => result.reply =
             OrElse(rawContent.response, OrElse(rawContent.text, rawContent.message))

\* C20: when the parsed model output has the shape of a tool invocation
\* other than the recognized search tool, the result returned by
\* generateReply has reply = the fixed apology sentinel and does not expose
\* the raw tool payload fields.
C20_UnhandledToolIsApology ==
    (/\ CompletionHandled
     /\ rawContent.json = "object"
     /\ rawContent.tool # Undef \/ rawContent.query # Undef
     /\ ~IsSearchToolCall(rawContent))
        => /\ result.reply = ApologySentinel
           /\ result.tool = Undef
           /\ result.query = Undef

-----------------------------------------------------------------------------
(* Model selection of generateReply on its own (lines 722-808) and the      *)
(* identifier each path puts in its request (lines 925, 985, 1088-1095).    *)
(* pageConfig carries cheap_engine, api_key and ai; resolver carries the    *)
(* page's chat_model and chatmodel fields and the locals.                   *)

\* pageConfig.chat_model values: missing, the placeholder, the auto marker,
\* deprecated names (one with blanks around it), current names, a name the
\* table does not know
ChatModelValues ==
    { Undef, "default", "openrouter/auto", "gemini-pro", " gemini-pro ",
      "gemini-2.5-flash-lite", "groq-speed", "salesmanchatbot-lite",
      "my-org/my-model" }

\* pageConfig.chatmodel values
ChatmodelValues == { Undef, "gemini-pro", "my-org/my-model" }

AliasProviders == { Undef, "gemini", "openrouter", "groq", "salesmanchatbot", "xai" }

\* dynamicModel after the Command API override of line 732
DynamicModels == { "arcee-ai/trinity-large-preview", "gemini-2.0-flash" }

\* const MODEL_ALIASES = { ... } (lines 777-789)
MODEL_ALIASES ==
    [ k \in { "gemini-2.0-flash", "gemini-1.5-flash", "gemini-pro",
              "gemini2.5-flash", "gemini-2.5-flash-lite", "groq-fast",
              "groq-speed", "grok-4.1-fast", "salesmanchatbot-pro",
              "salesmanchatbot-flash", "salesmanchatbot-lite" } |->
        CASE k \in { "gemini-2.0-flash", "gemini-1.5-flash", "gemini-pro",
                     "gemini2.5-flash", "salesmanchatbot-pro",
                     "salesmanchatbot-flash" } -> "gemini-2.5-flash"
          [] k \in { "gemini-2.5-flash-lite", "salesmanchatbot-lite" } -> "gemini-2.5-flash-lite"
          [] k \in { "groq-fast", "grok-4.1-fast" } -> "llama-3.3-70b-versatile"
          [] k = "groq-speed" -> "llama-3.1-8b-instant" ]

\* if (MODEL_ALIASES[defaultModel]) defaultModel = MODEL_ALIASES[defaultModel]
ResolveAlias(m) ==
    IF m \in DOMAIN MODEL_ALIASES THEN MODEL_ALIASES[m] ELSE m

\* String.includes on a model name
IncludesGemini(m) ==
    m \in { "gemini-pro", "gemini-2.0-flash", "gemini-1.5-flash", "gemini2.5-flash",
            "gemini-2.5-flash", "gemini-2.5-flash-lite" }
IncludesFree(m) ==
    m \in { "meta-llama/llama-3.1-8b-instruct:free", "qwen/qwen-2.5-vl-7b-instruct:free" }

\* let userModel = ... (lines 741-747)
userModel(chat_model) ==
    IF Truthy(chat_model) /\ chat_model # "default"
    THEN IF Trim(chat_model) = "openrouter/auto" THEN bestFreeModels.text
         ELSE Trim(chat_model)
    ELSE Null

\* defaultModel before normalisation (lines 752-772)
SmartDefault(um, dynamicModel) ==
    LET byProvider ==
            CASE defaultProvider = "gemini" -> "gemini-2.5-flash"
              [] defaultProvider = "openrouter" ->
                    IF useCheapEngine THEN dynamicModel ELSE "arcee-ai/trinity-large-preview"
              [] defaultProvider = "groq" -> "llama-3.3-70b-versatile"
              [] defaultProvider = "salesmanchatbot" -> "salesmanchatbot-pro"
              [] OTHER -> IF useCheapEngine THEN dynamicModel ELSE "gemini-2.5-flash"
        chosen == IF Truthy(um) THEN um ELSE byProvider
    IN  IF ~Truthy(um) /\ defaultProvider = "openrouter"
            /\ IncludesGemini(chosen) /\ ~IncludesFree(chosen)
        THEN "arcee-ai/trinity-large-preview"
        ELSE chosen

\* defaultModel after normalisation and the override for a page without a
\* model of its own (lines 791-808)
NormalisedDefault(um, dm) ==
    IF ~Truthy(um) THEN "gemini-2.5-flash" ELSE ResolveAlias(dm)

InitAlias ==
    /\ pageConfig \in [ cheap_engine : { "true", "false" },
                        api_key : { << >>, << "AIzaSyA" >> },
                        ai : AliasProviders,
                        is_external_api : { FALSE } ]
    /\ history = << >>
    /\ imagesLeft = 0
    /\ audioLeft = 0
    /\ pc = "config"
    /\ messages = << >>
    /\ userKeyAttempted = FALSE
    /\ userKeys = << >>
    /\ curKey = NoKey
    /\ swarmI = 0
    /\ rawContent = NoContent
    /\ keyState = [ k \in PoolKeys |-> Alive ]
    /\ acquires = [ media |-> 0, swarmGet |-> 0, swarm |-> 0 ]
    /\ calls = << >>
    /\ searches = 0
    /\ lastFail = NoFail
    /\ result = Pending
    /\ vision = NoVision
    /\ audio = NoAudio
    /\ parser = NoParse
    /\ bestFreeModels = DefaultBestFreeModels
    /\ refresh = NoRefresh
    /\ cache = NoCacheKey
    /\ pool = NoPool
    /\ PagesAtRest
    /\ \E cm \in ChatModelValues, c \in ChatmodelValues, dyn \in DynamicModels :
          resolver = [ at |-> "config", chat_model |-> cm, chatmodel |-> c,
                       dynamicModel |-> dyn, userModel |-> Null,
                       selected |-> Undef, defaultModel |-> Undef,
                       path |-> "none", sent |-> Undef ]

aliasFrame ==
    << bestFreeModels, refresh, cache, pool, pageVars, vision, audio, parser, dispatcherVars >>

\* lines 741-772: userModel and the provider's default
SelectModel ==
    /\ resolver.at = "config"
    /\ LET um == userModel(resolver.chat_model) IN
         resolver' = [ resolver EXCEPT
                         !.at = "selected",
                         !.userModel = um,
                         !.selected = SmartDefault(um, resolver.dynamicModel) ]
    /\ UNCHANGED aliasFrame

\* lines 791-808: the alias table, then the override
NormaliseModel ==
    /\ resolver.at = "selected"
    /\ resolver' = [ resolver EXCEPT
                       !.at = "resolved",
                       !.defaultModel = NormalisedDefault(resolver.userModel, resolver.selected) ]
    /\ UNCHANGED aliasFrame

\* line 925: the SalesmanChatbot own-API request
SendOwnApi ==
    /\ resolver.at = "resolved"
    /\ OwnApiGuard
    /\ resolver' = [ resolver EXCEPT
                       !.at = "sent", !.path = "ownApi",
                       !.sent = OrElse(resolver.chatmodel, "salesmanchatbot-pro") ]
    /\ UNCHANGED aliasFrame

\* line 985: let modelToUse = pageConfig.chatmodel || defaultModel
SendPhase1 ==
    /\ resolver.at = "resolved"
    /\ ~OwnApiGuard
    /\ Phase1Guard
    /\ resolver' = [ resolver EXCEPT
                       !.at = "sent", !.path = "phase1",
                       !.sent = OrElse(resolver.chatmodel, resolver.defaultModel) ]
    /\ UNCHANGED aliasFrame

\* lines 1088-1095: the swarm asks the pool for gemini-2.5-flash
SendSwarm ==
    /\ resolver.at = "resolved"
    /\ ~OwnApiGuard
    /\ ~Phase1Guard
    /\ resolver' = [ resolver EXCEPT
                       !.at = "sent", !.path = "swarm", !.sent = SwarmModel ]
    /\ UNCHANGED aliasFrame

NextAlias ==
    \/ SelectModel
    \/ NormaliseModel
    \/ SendOwnApi
    \/ SendPhase1
    \/ SendSwarm

SpecAlias == InitAlias /\ [][NextAlias]_vars

\* C21: alias resolution maps every identifier that is a key of
\* MODEL_ALIASES to its canonical replacement and leaves every other
\* identifier unchanged; resolving an already-resolved identifier changes
\* nothing; and the identifier sent to the provider is the resolved one.
C21_AliasResolution ==
    /\ resolver.at \in { "resolved", "sent" } /\ Truthy(resolver.userModel) =>
          /\ resolver.selected \in DOMAIN MODEL_ALIASES =>
                resolver.defaultModel = MODEL_ALIASES[resolver.selected]
          /\ resolver.selected \notin DOMAIN MODEL_ALIASES =>
                resolver.defaultModel = resolver.selected
          /\ ResolveAlias(resolver.defaultModel) = resolver.defaultModel
    /\ resolver.at = "sent" => ResolveAlias(resolver.sent) = resolver.sent

-----------------------------------------------------------------------------
(* updateBestFreeModels (lines 321-421) and its two triggers (lines 424,    *)
(* 426).  refresh.runs holds one record per call: its position (fetch: the  *)
(* catalog request is awaited; rank: the ranking request is awaited; done), *)
(* the filtered and sorted freeModels, and how the call ended.              *)

MaxRefreshRuns == 2   \* calls of updateBestFreeModels followed
MaxCatalog == 2       \* entries of a fetched catalog

\* catalog entries: id, whether both prices are zero, context_length; the
\* last one has zero prices and no id
CatalogEntries ==
    { [ id |-> "meta-llama/llama-3.3-70b-instruct:free", free |-> TRUE, context_length |-> 2 ],
      [ id |-> "qwen/qwen-2.5-vl-72b-instruct:free", free |-> TRUE, context_length |-> 1 ],
      [ id |-> "stepfun/step-3.5:free", free |-> TRUE, context_length |-> 3 ],
      [ id |-> "google/gemini-2.0-flash-exp:free", free |-> TRUE, context_length |-> 4 ],
      [ id |-> "openai/gpt-4o", free |-> FALSE, context_length |-> 4 ],
      [ id |-> Undef, free |-> TRUE, context_length |-> 0 ] }

\* response.data.data when it is an array
Catalogs == UNION { [ 1..n -> CatalogEntries ] : n \in 0..MaxCatalog }

\* values JSON.parse gets from the ranking completion
RankingResults ==
    { [ text |-> "stepfun/step-3.5:free", vision |-> "qwen/qwen-2.5-vl-72b-instruct:free",
        voice |-> "meta-llama/llama-3.3-70b-instruct:free" ],
      [ text |-> "stepfun/step-3.5:free", vision |-> "", voice |-> "stepfun/step-3.5:free" ],
      [ text |-> Undef, vision |-> Undef, voice |-> Undef ] }

\* m.id.includes(...) and the reliableProviders pattern on the ids above
IncludesGemini20(id) == id = "google/gemini-2.0-flash-exp:free"
IsReliableProvider(id) ==
    id \in { "meta-llama/llama-3.3-70b-instruct:free", "qwen/qwen-2.5-vl-72b-instruct:free",
             "google/gemini-2.0-flash-exp:free" }
IncludesVision(id) == FALSE
IncludesGemini25OrQwen25(id) == id = "qwen/qwen-2.5-vl-72b-instruct:free"
IncludesFlashAndGemini(id) == id = "google/gemini-2.0-flash-exp:free"

\* the filter callback raises a TypeError on an entry with zero prices and
\* no id (m.id.includes of undefined)
FilterThrows(models) ==
    \E i \in 1..Len(models) : models[i].free /\ models[i].id = Undef

IsFreeModel(m) == m.free /\ ~IncludesGemini20(m.id)

\* freeModels.sort((a, b) => (b.context_length || 0) - (a.context_length || 0))
RECURSIVE InsertByContext(_, _)
InsertByContext(m, s) ==
    IF s = << >> THEN << m >>
    ELSE IF Head(s).context_length >= m.context_length
         THEN << Head(s) >> \o InsertByContext(m, Tail(s))
         ELSE << m >> \o s

RECURSIVE SortByContext(_)
SortByContext(s) ==
    IF s = << >> THEN << >>
    ELSE InsertByContext(s[Len(s)], SortByContext(SubSeq(s, 1, Len(s) - 1)))

\* Array.prototype.find(...) || otherwise
RECURSIVE FindOr(_, _, _)
FindOr(Test(_), s, otherwise) ==
    IF s = << >> THEN otherwise
    ELSE IF Test(Head(s)) THEN Head(s)
         ELSE FindOr(Test, Tail(s), otherwise)

TextRule(m) == IsReliableProvider(m.id) /\ ~IncludesVision(m.id)
VisionRule(m) == IncludesGemini25OrQwen25(m.id)
VoiceRule(m) == IncludesFlashAndGemini(m.id)

\* the rule-based selection of the inner catch (lines 406-413)
RuleBased(freeModels) ==
    LET bestText == FindOr(TextRule, freeModels, freeModels[1])
        bestVision == FindOr(VisionRule, freeModels, freeModels[1])
        bestVoice == FindOr(VoiceRule, freeModels, bestText)
    IN  [ text |-> bestText.id, vision |-> bestVision.id, voice |-> bestVoice.id ]

\* the ranking taken as it comes
RankingAcceptedUnchecked(r) == TRUE

\* if (result.text && result.vision && result.voice)
RankingAccepted(r) == Truthy(r.text) /\ Truthy(r.vision) /\ Truthy(r.voice)

RefreshRun(at, freeModels, outcome) ==
    [ at |-> at, freeModels |-> freeModels, outcome |-> outcome ]

InitRefresh ==
    /\ DispatcherAtRest("idle")
    /\ vision = NoVision
    /\ audio = NoAudio
    /\ parser = NoParse
    /\ resolver = NoResolve
    /\ cache = NoCacheKey
    /\ pool = NoPool
    /\ PagesAtRest
    /\ bestFreeModels = DefaultBestFreeModels
    /\ refresh = [ at |-> "loaded", runs |-> << >> ]

refreshFrame == << resolver, cache, pool, pageVars, vision, audio, parser, dispatcherVars >>

\* updateBestFreeModels() of line 426 and every firing of the interval
\* timer of line 424: the function is entered and awaits the catalog
RefreshTrigger ==
    /\ Len(refresh.runs) < MaxRefreshRuns
    /\ refresh' = [ refresh EXCEPT
                      !.runs = Append(@, RefreshRun("fetch", << >>, "pending")) ]
    /\ UNCHANGED bestFreeModels
    /\ UNCHANGED refreshFrame

SettleRun(i, outcome) ==
    refresh' = [ refresh EXCEPT !.runs[i] = RefreshRun("done", << >>, outcome) ]

\* axios.get rejects, or the body has no array in data (line 327)
RefreshFetchFails ==
    /\ \E i \in 1..Len(refresh.runs) :
          /\ refresh.runs[i].at = "fetch"
          /\ \E outcome \in { "fetch_failed", "malformed" } : SettleRun(i, outcome)
    /\ UNCHANGED bestFreeModels
    /\ UNCHANGED refreshFrame

\* the catalog arrives: filter, early return, sort (lines 331-344)
RefreshFetched ==
    /\ \E i \in 1..Len(refresh.runs), models \in Catalogs :
          /\ refresh.runs[i].at = "fetch"
          /\ IF FilterThrows(models) THEN SettleRun(i, "malformed")
             ELSE LET freeModels == SelectSeq(models, IsFreeModel) IN
                    IF Len(freeModels) = 0 THEN SettleRun(i, "no_free_model")
                    ELSE refresh' = [ refresh EXCEPT !.runs[i] =
                            RefreshRun("rank", SortByContext(freeModels), "pending") ]
    /\ UNCHANGED bestFreeModels
    /\ UNCHANGED refreshFrame

\* the ranking request settles with a parsed value (lines 392-400)
RefreshRanked ==
    /\ \E i \in 1..Len(refresh.runs), r \in RankingResults :
          /\ refresh.runs[i].at = "rank"
          /\ IF RankingAccepted(r)
             THEN /\ bestFreeModels' = r
                  /\ SettleRun(i, "ranked")
             ELSE /\ bestFreeModels' = RuleBased(refresh.runs[i].freeModels)
                  /\ SettleRun(i, "rule_based")
    /\ UNCHANGED refreshFrame

\* no pooled key, the ranking request fails, or its content does not parse
\* (lines 401-413)
RefreshRankingFails ==
    /\ \E i \in 1..Len(refresh.runs) :
          /\ refresh.runs[i].at = "rank"
          /\ bestFreeModels' = RuleBased(refresh.runs[i].freeModels)
          /\ SettleRun(i, "rule_based")
    /\ UNCHANGED refreshFrame

NextRefresh ==
    \/ RefreshTrigger
    \/ RefreshFetchFails
    \/ RefreshFetched
    \/ RefreshRanked
    \/ RefreshRankingFails

SpecRefresh == InitRefresh /\ [][NextRefresh]_vars

RunsInFlight == { i \in 1..Len(refresh.runs) : refresh.runs[i].at # "done" }

\* C22: at most one updateBestFreeModels run is in flight at any time: a
\* trigger (the startup call or a timer tick) that arrives while a previous
\* refresh has not finished starts nothing, so two refreshes never overlap.
C22_OneRefreshInFlight == Cardinality(RunsInFlight) <= 1

FailedOutcomes == { "fetch_failed", "malformed", "no_free_model" }

\* a step in which some run ends with the catalog fetch failed, the body
\* malformed, or no zero-cost model in it
RunFails ==
    \E i \in 1..Len(refresh.runs) :
        /\ refresh.runs[i].at # "done"
        /\ refresh'.runs[i].at = "done"
        /\ refresh'.runs[i].outcome \in FailedOutcomes

TableComplete ==
    Truthy(bestFreeModels.text) /\ Truthy(bestFreeModels.vision) /\ Truthy(bestFreeModels.voice)

-----------------------------------------------------------------------------
(* getCacheKey (lines 447-452) applied to two requests.  A message is the   *)
(* sequence of its characters; a sender has an id and a display name.       *)

MaxMessageLen == 2   \* characters of a message

MessageChars == { "H", "i", "!", " " }

Messages == SeqsUpTo(MessageChars, MaxMessageLen)

PageIds == { "101", "102" }

\* senders of a page: two of them share their display name
Senders ==
    { [ id |-> "u1", name |-> "Rahim" ],
      [ id |-> "u2", name |-> "Rahim" ],
      [ id |-> "u3", name |-> "Karim" ] }

CacheRequests == [ pageId : PageIds, sender : Senders, message : Messages ]

\* String.prototype.toLowerCase
LowerChar(c) == IF c = "H" THEN "h" ELSE c
ToLowerCaseChars(m) == [ i \in 1..Len(m) |-> LowerChar(m[i]) ]

\* .replace(/[^\w\s\u0980-\u09FF]/g, ''): word characters and white space stay
IsWordOrSpace(c) == c \in { "H", "h", "i", " " }
StripSpecial(m) == SelectSeq(m, IsWordOrSpace)

\* String.prototype.trim
RECURSIVE TrimLeft(_)
TrimLeft(m) ==
    IF m # << >> /\ Head(m) = " " THEN TrimLeft(Tail(m)) ELSE m

RECURSIVE TrimRight(_)
TrimRight(m) ==
    IF m # << >> /\ m[Len(m)] = " " THEN TrimRight(SubSeq(m, 1, Len(m) - 1)) ELSE m

TrimChars(m) == TrimRight(TrimLeft(m))

RECURSIVE JoinChars(_)
JoinChars(m) == IF m = << >> THEN "" ELSE Head(m) \o JoinChars(Tail(m))

\* function getCacheKey(pageId, message, senderName)
getCacheKey(pageId, message, senderName) ==
    LET normalized == TrimChars(StripSpecial(ToLowerCaseChars(message)))
    IN  pageId \o ":" \o senderName \o ":" \o JoinChars(normalized)

InitCacheKey ==
    /\ DispatcherAtRest("idle")
    /\ vision = NoVision
    /\ audio = NoAudio
    /\ parser = NoParse
    /\ resolver = NoResolve
    /\ bestFreeModels = DefaultBestFreeModels
    /\ refresh = NoRefresh
    /\ pool = NoPool
    /\ PagesAtRest
    /\ \E a \in CacheRequests, b \in CacheRequests :
          cache = [ at |-> "input", a |-> a, b |-> b, keyA |-> Undef, keyB |-> Undef ]

cacheFrame ==
    << resolver, bestFreeModels, refresh, pool, pageVars, vision, audio, parser, dispatcherVars >>

\* the key of the first request
CacheKeyA ==
    /\ cache.at = "input"
    /\ cache.keyA = Undef
    /\ cache' = [ cache EXCEPT
                    !.keyA = getCacheKey(cache.a.pageId, cache.a.message, cache.a.sender.name),
                    !.at = IF cache.keyB = Undef THEN "input" ELSE "keyed" ]
    /\ UNCHANGED cacheFrame

\* the key of the second request
CacheKeyB ==
    /\ cache.at = "input"
    /\ cache.keyB = Undef
    /\ cache' = [ cache EXCEPT
                    !.keyB = getCacheKey(cache.b.pageId, cache.b.message, cache.b.sender.name),
                    !.at = IF cache.keyA = Undef THEN "input" ELSE "keyed" ]
    /\ UNCHANGED cacheFrame

NextCacheKey ==
    \/ CacheKeyA
    \/ CacheKeyB

SpecCacheKey == InitCacheKey /\ [][NextCacheKey]_vars

\* C24: for the same message, two requests that differ in pageId or in
\* sender identity never obtain the same getCacheKey value.
C24_KeySeparatesPagesAndSenders ==
    (/\ cache.at = "keyed"
     /\ cache.a.message = cache.b.message
     /\ cache.a.pageId # cache.b.pageId \/ cache.a.sender.id # cache.b.sender.id)
        => cache.keyA # cache.keyB

-----------------------------------------------------------------------------
(* The key pool over time: two requests in the swarm loop (lines 1088-1178) *)
(* share the pooled credentials while a clock advances.  keyState holds the *)
(* quarantine records written by handleAiError, pool.markedAt the time each *)
(* record was written.                                                      *)

MaxClockTicks == 3    \* advances of the clock

\* one advance of the clock: half the auth-error quarantine
TickMs == AuthErrorMs \div 2

PoolRequests == { "r1", "r2" }

Now == pool.ticks * TickMs

\* getSmartKey with the pool's clock: a credential that is alive, or dead
\* with its cooldown over, or nothing
getSmartKeyAt(ks, markedAt, now) ==
    { k \in PoolKeys :
        \/ ks[k].status = "alive"
        \/ ks[k].status = "dead" /\ now >= markedAt[k] + ks[k].durationMs }
      \cup { NoKey }

\* the branches of handleAiError that call the key service
MarksKey(e) == IsRateLimit(e) \/ e.status \in { 401, 403 } \/ e.status >= 500

PoolRequest(at, key, i) == [ at |-> at, key |-> key, i |-> i ]

\* a request that has returned: its locals are gone
PoolReturned == PoolRequest("done", NoKey, 0)

InitPool ==
    /\ DispatcherAtRest("swarm")
    /\ vision = NoVision
    /\ audio = NoAudio
    /\ parser = NoParse
    /\ resolver = NoResolve
    /\ bestFreeModels = DefaultBestFreeModels
    /\ refresh = NoRefresh
    /\ cache = NoCacheKey
    /\ PagesAtRest
    /\ pool = [ at |-> "running", ticks |-> 0,
                markedAt |-> [ k \in PoolKeys |-> 0 ],
                reqs |-> [ r \in PoolRequests |-> PoolRequest("acquire", NoKey, 0) ] ]

poolFrame ==
    << resolver, bestFreeModels, refresh, cache, pageVars, vision, audio, parser,
       pageConfig, history, imagesLeft, audioLeft, pc, messages, userKeyAttempted,
       userKeys, curKey, swarmI, rawContent, acquires, calls, searches,
       lastFail, result >>

\* keyData = await keyService.getSmartKey('google', 'gemini-2.5-flash') and
\* the break of lines 1092-1095
PoolAcquire ==
    /\ \E r \in PoolRequests :
          /\ pool.reqs[r].at = "acquire"
          /\ pool.reqs[r].i < MaxSwarmAttempts
          /\ \E k \in getSmartKeyAt(keyState, pool.markedAt, Now) :
                pool' = [ pool EXCEPT !.reqs[r] =
                            IF k = NoKey THEN PoolReturned
                            ELSE PoolRequest("call", k, @.i) ]
    /\ UNCHANGED keyState
    /\ UNCHANGED poolFrame

\* the completion fails: handleAiError, then the next iteration
PoolCallFails ==
    /\ \E r \in PoolRequests, e \in DispatchErrors :
          /\ pool.reqs[r].at = "call"
          /\ keyState' = handleAiError(keyState, e, pool.reqs[r].key, SwarmModel)
          /\ pool' = [ pool EXCEPT
                         !.markedAt[pool.reqs[r].key] = IF MarksKey(e) THEN Now ELSE @,
                         !.reqs[r] = IF @.i + 1 < MaxSwarmAttempts
                                     THEN PoolRequest("acquire", NoKey, @.i + 1)
                                     ELSE PoolReturned ]
    /\ UNCHANGED poolFrame

\* the completion returns and the request ends
PoolCallReturns ==
    /\ \E r \in PoolRequests :
          /\ pool.reqs[r].at = "call"
          /\ pool' = [ pool EXCEPT !.reqs[r] = PoolReturned ]
    /\ UNCHANGED keyState
    /\ UNCHANGED poolFrame

\* time passes
PoolTick ==
    /\ pool.ticks < MaxClockTicks
    /\ pool' = [ pool EXCEPT !.ticks = @ + 1 ]
    /\ UNCHANGED keyState
    /\ UNCHANGED poolFrame

NextPool ==
    \/ PoolAcquire
    \/ PoolCallFails
    \/ PoolCallReturns
    \/ PoolTick

SpecPool == InitPool /\ [][NextPool]_vars

\* the credential's quarantine record is an auth_error one written less
\* than 24 hours ago
InAuthCooldown(k) ==
    /\ keyState[k].status = "dead"
    /\ keyState[k].reason = "auth_error"
    /\ Now < pool.markedAt[k] + AuthErrorMs

\* request r is handed credential k in this step
Acquires(r, k) ==
    /\ pool.reqs[r].at = "acquire"
    /\ pool'.reqs[r].at = "call"
    /\ pool'.reqs[r].key = k

-----------------------------------------------------------------------------
(* Properties of the dispatcher, continued (checked under Spec) *)

\* C27: in external mode (is_external_api) no inference call of the
\* request, the tool-loop re-invocation included, is issued with the
\* json_object response format.
C27_ExternalModeNeverJsonObject ==
    pageConfig.is_external_api =>
        \A j \in 1..Len(calls) : calls[j].fmt # "json_object"

OwnApiTaken == CallsOfPhase(0) # {}

\* C28: when the SalesmanChatbot own-API path is taken the request ends on
\* that path: a non-empty answer is returned as the reply, every other
\* outcome (a thrown error or an empty content) yields an error result with
\* reply = null, and the managed swarm is never run.
C28_OwnApiPathIsFinal ==
    OwnApiTaken =>
        /\ pc = "done"
        /\ \/ result.kind = "value" /\ Truthy(result.reply) /\ IsNullish(result.error)
           \/ IsErrorResult(result)
        /\ CallsOfPhase(2) = {}
        /\ acquires.swarmGet = 0

\* the step in which the second inference call of the Phase 1 tool loop is
\* issued
SecondCallIssued == pc = "p1call2" /\ Len(calls') = Len(calls) + 1

\* the message sequence the first call of the request was sent
FirstCallMessages == << "system" >> \o history \o << "user" >>

\* C29: in the Phase 1 tool loop the second inference call uses the same
\* credential and the same model as the first, and its message sequence is
\* the first call's sequence followed by exactly two added turns, the
\* assistant tool-call turn and then the search-results turn; when the
\* product search or the second call fails the request still returns a
\* result, without going to the managed pool and without an exception.
C29_ToolLoopSecondCall ==
    /\ [][SecondCallIssued =>
            LET first == calls[Len(calls)]
                second == calls'[Len(calls')]
            IN  /\ second.cred = first.cred
                /\ second.model = first.model
                /\ second.nmsgs = first.nmsgs + 2
                /\ messages = FirstCallMessages \o << "assistant", "system" >>
                /\ second.nmsgs = Len(messages)]_vars
    /\ [](pc = "done" /\ userKeyAttempted /\ searches = 1
            => /\ result.kind = "value"
               /\ CallsOfPhase(2) = {}
               /\ acquires.swarmGet = 0)

\* the search was made and the second call failed: the request ended with
\* a reply taken from the first answer
C29_Witness ==
    /\ pc = "done"
    /\ userKeyAttempted
    /\ searches = 1
    /\ Len(calls) = 2
    /\ calls[2].status # 200
    /\ calls[2].cred = calls[1].cred
    /\ result.kind = "value"

\* attempts of Phase 1: its inference calls other than the re-invocation
Phase1Attempts == CallsOfPhase(1) \ Reinvocations

RangeOf(s) == { s[i] : i \in 1..Len(s) }

\* C30: Phase 1 tries the user's keys one at a time, in a shuffled order
\* that is a permutation of the non-empty keys (each at most once); the
\* first attempt that returns choices ends the request with its result, the
\* first attempt that raises ends the request with an error without trying
\* the remaining keys, and a later key is tried only after an attempt that
\* returned no choices.
C30_Phase1KeyOrder ==
    /\ \A j \in Phase1Attempts : calls[j].cred \in RangeOf(SplitUserKeys)
    /\ \A i, j \in Phase1Attempts : i # j => calls[i].cred # calls[j].cred
    /\ pc \in { "p1loop", "p1search", "p1call2" } =>
          RangeOf(userKeys) \cup { calls[j].cred : j \in Phase1Attempts }
              = RangeOf(SplitUserKeys)
    /\ \A j \in Phase1Attempts :
          calls[j].status # 200 =>
              /\ j = Len(calls)
              /\ pc = "done"
              /\ IsErrorResult(result)
    /\ pc = "done" /\ userKeyAttempted /\ rawContent # NoContent =>
          result.kind = "value"

\* C31: in Phase 2 every failed inference attempt, whatever the kind of
\* failure (429, 401/403, 5xx, timeout or network error without a status),
\* marks the credential it used as quota-exceeded or dead before the next
\* attempt's acquire, so a credential that has just failed is not taken
\* again by a later attempt of the same request.
C31_FailedCredentialIsMarked ==
    /\ \A j \in CallsOfPhase(2) :
          calls[j].status # 200 => keyState[calls[j].cred].status # "alive"
    /\ \A i, j \in CallsOfPhase(2) :
          (i < j /\ calls[i].status # 200) => calls[j].cred # calls[i].cred

\* id is the id of an entry of freeModels that has zero prices and is not
\* on the denylist
IsAllowedFreeId(id, freeModels) ==
    \E k \in 1..Len(freeModels) :
        /\ freeModels[k].id = id
        /\ freeModels[k].free
        /\ ~IncludesGemini20(freeModels[k].id)

\* C32: after any refresh that changes bestFreeModels, each of its three
\* entries (text, vision, voice) is the id of a model of the fetched catalog
\* that is zero-cost for prompt and completion and not on the denylist,
\* whether the entries came from the ranking model or from the rule-based
\* fallback.
C32_TableEntriesAreFreeCatalogIds ==
    [][bestFreeModels' # bestFreeModels =>
         \E i \in 1..Len(refresh.runs) :
             /\ refresh.runs[i].at = "rank"
             /\ refresh'.runs[i].at = "done"
             /\ IsAllowedFreeId(bestFreeModels'.text, refresh.runs[i].freeModels)
             /\ IsAllowedFreeId(bestFreeModels'.vision, refresh.runs[i].freeModels)
             /\ IsAllowedFreeId(bestFreeModels'.voice, refresh.runs[i].freeModels)]_vars

-----------------------------------------------------------------------------
(* Media preprocessing of generateReply (lines 634, 682-720) with several   *)
(* references.  media.imgValue[i] / media.audValue[i] is what the analysis  *)
(* of the i-th reference settled with (Unsettled before), media.imgOrder /  *)
(* media.audOrder the order in which they settled, media.context the        *)
(* descriptions in the order they are written into the media context.       *)

MaxRefs == 2    \* image references, and audio references, of a request

ExtraUsages == { 0, 3 }

Unsettled == [ ref |-> 0, kind |-> "pending", usage |-> 0 ]

\* what an analysis of reference i can settle with: a record with text and
\* usage, or a bare string
AnalysisValues(i) ==
    { [ ref |-> i, kind |-> "object", usage |-> u ] : u \in UsageValues }
        \cup { [ ref |-> i, kind |-> "string", usage |-> 0 ] }

\* results taken in the order the analyses settled
PromiseAllByCompletion(values, order) == [ k \in 1..Len(order) |-> values[order[k]] ]

\* await Promise.all(promises): the values in the order of the promises
PromiseAll(values, order) == values

\* if (typeof res === 'object') totalTokenUsage += (res.usage || 0)
UsageOf(res) == IF res.kind = "object" THEN res.usage ELSE 0

RECURSIVE SumUsage(_)
SumUsage(results) ==
    IF results = << >> THEN 0
    ELSE UsageOf(Head(results)) + SumUsage(Tail(results))

\* one line of the media context for the k-th result
Described(what, k, res) == [ what |-> what, pos |-> k, ref |-> res.ref ]

InitMedia ==
    /\ DispatcherAtRest("media")
    /\ vision = NoVision
    /\ audio = NoAudio
    /\ parser = NoParse
    /\ resolver = NoResolve
    /\ bestFreeModels = DefaultBestFreeModels
    /\ refresh = NoRefresh
    /\ cache = NoCacheKey
    /\ pool = NoPool
    /\ route = NoRoute
    /\ settings = NoSettings
    /\ \E ni \in 0..MaxRefs, na \in 0..MaxRefs, extra \in ExtraUsages :
          media = [ at |-> "images", extra |-> extra, nImages |-> ni, nAudio |-> na,
                    imgValue |-> [ i \in 1..ni |-> Unsettled ],
                    audValue |-> [ i \in 1..na |-> Unsettled ],
                    imgOrder |-> << >>, audOrder |-> << >>, usages |-> 0,
                    totalTokenUsage |-> extra, context |-> << >> ]

mediaFrame ==
    << resolver, bestFreeModels, refresh, cache, pool, route, settings,
       vision, audio, parser, dispatcherVars >>

\* imageUrls.map(url => processImageWithVision(...)): every analysis is
\* started before any is awaited (line 692); no images, no step
StartImages ==
    /\ media.at = "images"
    /\ media' = [ media EXCEPT !.at = IF media.nImages > 0 THEN "imagesRunning" ELSE "audio" ]
    /\ UNCHANGED mediaFrame

\* the analysis of one image settles
ImageSettles ==
    /\ media.at = "imagesRunning"
    /\ \E i \in 1..media.nImages :
          /\ media.imgValue[i] = Unsettled
          /\ \E v \in AnalysisValues(i) :
                media' = [ media EXCEPT !.imgValue[i] = v,
                                        !.imgOrder = Append(@, i),
                                        !.usages = @ + v.usage ]
    /\ UNCHANGED mediaFrame

\* Promise.all resolves; usage is added and the descriptions are written
\* (lines 692-700)
ImagesJoined ==
    /\ media.at = "imagesRunning"
    /\ Len(media.imgOrder) = media.nImages
    /\ LET imageResults == PromiseAll(media.imgValue, media.imgOrder) IN
         media' = [ media EXCEPT
                      !.at = "audio",
                      !.totalTokenUsage = @ + SumUsage(imageResults),
                      !.context = @ \o [ k \in 1..Len(imageResults) |->
                                            Described("image", k, imageResults[k]) ] ]
    /\ UNCHANGED mediaFrame

\* audioUrls.map(async url => ...): every transcription is started (line 705)
StartAudio ==
    /\ media.at = "audio"
    /\ media' = [ media EXCEPT !.at = IF media.nAudio > 0 THEN "audioRunning" ELSE "done" ]
    /\ UNCHANGED mediaFrame

\* one transcription settles and its callback resumes: the usage is added
\* there (lines 706-711)
AudioSettles ==
    /\ media.at = "audioRunning"
    /\ \E i \in 1..media.nAudio :
          /\ media.audValue[i] = Unsettled
          /\ \E v \in AnalysisValues(i) :
                media' = [ media EXCEPT !.audValue[i] = v,
                                        !.audOrder = Append(@, i),
                                        !.usages = @ + v.usage,
                                        !.totalTokenUsage = @ + UsageOf(v) ]
    /\ UNCHANGED mediaFrame

\* Promise.all of the transcriptions resolves (lines 705, 713)
AudioJoined ==
    /\ media.at = "audioRunning"
    /\ Len(media.audOrder) = media.nAudio
    /\ LET audioResults == PromiseAll(media.audValue, media.audOrder) IN
         media' = [ media EXCEPT
                      !.at = "done",
                      !.context = @ \o [ k \in 1..Len(audioResults) |->
                                            Described("audio", k, audioResults[k]) ] ]
    /\ UNCHANGED mediaFrame

NextMedia ==
    \/ StartImages
    \/ ImageSettles
    \/ ImagesJoined
    \/ StartAudio
    \/ AudioSettles
    \/ AudioJoined

SpecMedia == InitMedia /\ [][NextMedia]_vars

-----------------------------------------------------------------------------
(* The HTTP routes of the Messenger pages: GET /pages, GET /config/:id and  *)
(* PUT /config/:id (messengerRoutes.js 5-299).  A handler runs against the  *)
(* three tables it queries; route.configs is fb_message_database, Pages is  *)
(* page_access_token_message and route.team is team_members.  route.before  *)
(* keeps fb_message_database as it was when the request arrived, route.req  *)
(* the request and route.res the response that was sent.                    *)

OwnerEmail == "owner@x"
MemberEmail == "member@x"
OtherEmail == "other@x"

\* the sessions of the authentication service: the user a token resolves to;
\* the user of "t_phone" signed up without an e-mail address
Sessions ==
    [ t_owner |-> [ id |-> "u1", email |-> OwnerEmail ],
      t_member |-> [ id |-> "u2", email |-> MemberEmail ],
      t_other |-> [ id |-> "u3", email |-> OtherEmail ],
      t_phone |-> [ id |-> "u4", email |-> "" ] ]

\* an Authorization header: absent, or a token with or without the scheme
NoHeader == [ present |-> FALSE, scheme |-> "", token |-> "" ]

AuthHeaders ==
    { NoHeader }
        \cup { [ present |-> TRUE, scheme |-> "Bearer ", token |-> t ] :
                 t \in { "t_owner", "t_member", "t_other", "t_phone", "expired" } }
        \cup { [ present |-> TRUE, scheme |-> "", token |-> "t_member" ] }

\* authHeader.replace('Bearer ', ''): the header without the scheme, and a
\* header that has no scheme as it is
BearerToken(authHeader) == authHeader.token

\* supabase.auth.getUser(token): the user of the session, or an error
getUser(token) ==
    IF token \in DOMAIN Sessions
    THEN [ user |-> << Sessions[token] >>, error |-> FALSE ]
    ELSE [ user |-> << >>, error |-> TRUE ]

\* page_access_token_message: the page and its owner
Pages ==
    << [ page_id |-> "1", email |-> OwnerEmail ],
       [ page_id |-> "3", email |-> MemberEmail ],
       [ page_id |-> "4", email |-> OtherEmail ] >>

\* the columns of fb_message_database that PUT /config/:id may write
allowedKeysAndVerified ==
    << "reply_message", "swipe_reply", "image_detection", "image_send",
       "template", "order_tracking", "block_emoji", "unblock_emoji",
       "check_conversion", "text_prompt", "image_prompt", "verified" >>

allowedKeys ==
    << "reply_message", "swipe_reply", "image_detection", "image_send",
       "template", "order_tracking", "block_emoji", "unblock_emoji",
       "check_conversion", "text_prompt", "image_prompt" >>

Columns == { "id", "page_id", "verified", "api_key" } \cup RangeOf(allowedKeys)

\* a row of fb_message_database as it is stored before any update
StoredRow(id, pageId) ==
    [ c \in Columns |-> IF c = "id" THEN id ELSE IF c = "page_id" THEN pageId ELSE "stored" ]

\* fb_message_database: the page of row 2 has no row in page_access_token_message
StoredConfigs == << StoredRow(1, "1"), StoredRow(2, "2") >>

\* an entry of permissions.fb_pages: a page id written as a number or as text
PageRef(isNumber, text) == [ isNumber |-> isNumber, text |-> text ]

\* String(id)
String(ref) == ref.text

\* the permissions column of a team_members row: null, an object without an
\* fb_pages array, or an object with one
PermissionValues ==
    { [ kind |-> "null", fb_pages |-> << >> ],
      [ kind |-> "noArray", fb_pages |-> << >> ],
      [ kind |-> "array", fb_pages |-> << PageRef(TRUE, "1") >> ],
      [ kind |-> "array",
        fb_pages |-> << PageRef(FALSE, "3"), PageRef(FALSE, "2"), PageRef(TRUE, "1") >> ] }

TeamRows ==
    [ member_email : { MemberEmail }, owner_email : { OwnerEmail },
      status : { "active", "pending" }, permissions : PermissionValues ]
        \cup [ member_email : { OtherEmail }, owner_email : { OwnerEmail },
               status : { "active", "pending" },
               permissions : { p \in PermissionValues : Len(p.fb_pages) = 1 } ]

\* team_members: no row, one row, or a row that grants nothing followed by
\* another row of the same member
TeamTables ==
    { << >> } \cup { << r >> : r \in TeamRows }
        \cup { << r, s >> :
                 r \in { t \in TeamRows : /\ t.member_email = MemberEmail
                                          /\ t.permissions.kind = "null" },
                 s \in { t \in TeamRows : /\ t.member_email = MemberEmail
                                          /\ t.status = "active"
                                          /\ t.permissions.kind = "array" } }

\* the keys a request body may carry, and the bodies with up to MaxBodyKeys
MaxBodyKeys == 2

BodyKeys == { "reply_message", "check_conversion", "verified", "page_id", "id" }

Bodies ==
    UNION { [ keys -> { "sent" } ] :
              keys \in { k \in SUBSET BodyKeys : Cardinality(k) <= MaxBodyKeys } }

\* the :id parameter of a request, character by character
ConfigIds == { << "1" >>, << "2" >>, << "0", "9" >>, << "1", "x" >>, << "x" >> }

DigitChars == { "0", "1", "2", "3", "4", "5", "6", "7", "8", "9" }

RECURSIVE LeadingDigits(_)
LeadingDigits(chars) ==
    IF chars = << >> \/ Head(chars) \notin DigitChars
    THEN << >>
    ELSE << Head(chars) >> \o LeadingDigits(Tail(chars))

DigitValue(char) == CHOOSE d \in 0..9 : ToString(d) = char

RECURSIVE DecimalValue(_, _)
DecimalValue(digits, sofar) ==
    IF digits = << >> THEN sofar
    ELSE DecimalValue(Tail(digits), sofar * 10 + DigitValue(Head(digits)))

\* parseInt(id, 10): the number written by the leading digits, NaN without one
parseInt(chars) ==
    [ isNaN |-> LeadingDigits(chars) = << >>,
      value |-> DecimalValue(LeadingDigits(chars), 0) ]

\* .eq('id', n): the rows whose id is the number n; no row equals NaN
ConfigRowsOf(configs, n) ==
    IF n.isNaN THEN << >>
    ELSE SelectSeq(configs, LAMBDA row : row["id"] = n.value)

\* .eq('page_id', pageId) on page_access_token_message
PageRowsOf(pageId) == SelectSeq(Pages, LAMBDA p : p.page_id = pageId)

\* .eq('member_email', userEmail).eq('status', 'active') on team_members
AnyTeamOf(team, userEmail) ==
    SelectSeq(team, LAMBDA t : t.member_email = userEmail)

ActiveTeamOf(team, userEmail) ==
    SelectSeq(team, LAMBDA t : t.member_email = userEmail /\ t.status = "active")
\* the request of a handler: the header, the :id parameter, the JSON body and
\* the one query of the handler, if any, that the database fails
Request(method, authHeader, id, body, fails) ==
    [ method |-> method, authHeader |-> authHeader, id |-> id, body |-> body,
      fails |-> fails ]

ErrorResponse(status) == [ status |-> status, kind |-> "error", rows |-> << >> ]

RowResponse(rows) == [ status |-> 200, kind |-> "rows", rows |-> rows ]

\* the loop over teamData: some row lists the page in an fb_pages array
RECURSIVE TeamGrants(_, _)
TeamGrants(teamData, pageId) ==
    /\ teamData # << >>
    /\ LET t == Head(teamData)
           pages == IF t.permissions.kind = "array" THEN t.permissions.fb_pages ELSE << >>
       IN  \/ \E k \in 1..Len(pages) : String(pages[k]) = pageId
           \/ TeamGrants(Tail(teamData), pageId)

\* GET /config/:id up to its decision: the status it answers with, or
\* "allowed" with the row it goes on to send
GetConfigDecision(configs, team, req) ==
    LET found == getUser(BearerToken(req.authHeader))
        rows == ConfigRowsOf(configs, parseInt(req.id))
    IN  IF ~req.authHeader.present THEN [ status |-> 401, row |-> << >> ]
        ELSE IF found.error \/ found.user = << >> THEN [ status |-> 401, row |-> << >> ]
        ELSE IF req.fails = "config" \/ Len(rows) # 1 THEN [ status |-> 404, row |-> << >> ]
        ELSE IF req.fails = "page" THEN [ status |-> 500, row |-> << >> ]
        ELSE LET userEmail == found.user[1].email
                 pageId == rows[1]["page_id"]
                 pageRow == PageRowsOf(pageId)
                 owner == pageRow # << >> /\ pageRow[1].email = userEmail
                 member == /\ ~owner /\ userEmail # ""
                           /\ req.fails # "team"
                           /\ TeamGrants(ActiveTeamOf(team, userEmail), pageId)
             IN  IF owner \/ member THEN [ status |-> 200, row |-> << rows[1] >> ]
                 ELSE [ status |-> 403, row |-> << >> ]

\* PUT /config/:id up to its decision
PutConfigDecision(configs, team, req) ==
    LET found == getUser(BearerToken(req.authHeader))
        rows == ConfigRowsOf(configs, parseInt(req.id))
    IN  IF ~req.authHeader.present THEN [ status |-> 401, row |-> << >> ]
        ELSE IF found.error \/ found.user = << >> THEN [ status |-> 401, row |-> << >> ]
        ELSE IF req.fails = "config" \/ Len(rows) # 1 THEN [ status |-> 404, row |-> << >> ]
        ELSE IF req.fails = "page" THEN [ status |-> 500, row |-> << >> ]
        ELSE LET userEmail == found.user[1].email
                 pageId == rows[1]["page_id"]
                 pageRow == PageRowsOf(pageId)
                 owner == pageRow # << >> /\ pageRow[1].email = userEmail
                 member == /\ ~owner /\ userEmail # ""
                           /\ req.fails # "team"
                           /\ TeamGrants(ActiveTeamOf(team, userEmail), pageId)
             IN  IF owner \/ member THEN [ status |-> 200, row |-> << rows[1] >> ]
                 ELSE [ status |-> 403, row |-> << >> ]

\* the updates object: the allowlisted keys that the body has
Updates(body) ==
    [ key \in { k \in RangeOf(allowedKeys) : k \in DOMAIN body } |-> body[key] ]

\* .update(updates).eq('id', n): the rows with that id take the updates
UpdateRows(configs, n, updates) ==
    [ i \in 1..Len(configs) |->
        IF ~n.isNaN /\ configs[i]["id"] = n.value
        THEN [ c \in Columns |-> IF c \in DOMAIN updates THEN updates[c] ELSE configs[i][c] ]
        ELSE configs[i] ]
\* sharedPageIds: the fb_pages of the rows, each id as a string
RECURSIVE SharedPageIds(_)
SharedPageIds(teamData) ==
    IF teamData = << >> THEN << >>
    ELSE LET row == Head(teamData)
             ids == IF row.permissions.kind = "array"
                    THEN [ k \in 1..Len(row.permissions.fb_pages) |->
                             String(row.permissions.fb_pages[k]) ]
                    ELSE << >>
         IN  ids \o SharedPageIds(Tail(teamData))

\* Array.from(new Map(allPages.map(item => [item.page_id, item])).values()):
\* one item for each page_id, at the place of its first item, the last item
UniquePagesKeepAll(allPages) == allPages

UniquePages(allPages) ==
    LET IsFirst(i) == \A j \in 1..(i - 1) : allPages[j].page_id # allPages[i].page_id
        LastOf(i) == CHOOSE j \in i..Len(allPages) :
                        /\ allPages[j].page_id = allPages[i].page_id
                        /\ \A k \in (j + 1)..Len(allPages) :
                              allPages[k].page_id # allPages[i].page_id
        RECURSIVE From(_)
        From(i) == IF i > Len(allPages) THEN << >>
                   ELSE IF IsFirst(i) THEN << allPages[LastOf(i)] >> \o From(i + 1)
                   ELSE From(i + 1)
    IN  From(1)

\* GET /pages: the response
GetPagesResponse(configs, team, req) ==
    LET found == IF req.authHeader.present
                 THEN getUser(BearerToken(req.authHeader))
                 ELSE [ user |-> << >>, error |-> FALSE ]
    IN  IF found.user = << >> THEN ErrorResponse(401)
        ELSE IF req.fails = "my" THEN ErrorResponse(500)
        ELSE
          LET userEmail == found.user[1].email
              myPages == SelectSeq(Pages, LAMBDA p : p.email = userEmail)
              sharedPageIds == IF userEmail # "" /\ req.fails # "team"
                               THEN SharedPageIds(ActiveTeamOf(team, userEmail))
                               ELSE << >>
              sharedPages == IF Len(sharedPageIds) > 0 /\ req.fails # "shared"
                             THEN SelectSeq(Pages, LAMBDA p : p.page_id \in RangeOf(sharedPageIds))
                             ELSE << >>
              uniquePages == UniquePages(myPages \o sharedPages)
              allPageIds == { uniquePages[k].page_id : k \in 1..Len(uniquePages) }
              dbConfigs == IF Len(uniquePages) > 0 /\ req.fails # "db"
                           THEN SelectSeq(configs, LAMBDA d : d["page_id"] \in allPageIds)
                           ELSE << >>
              finalPages ==
                  [ k \in 1..Len(uniquePages) |->
                      LET p == uniquePages[k]
                          dbInfo == SelectSeq(dbConfigs, LAMBDA d : d["page_id"] = p.page_id)
                      IN  [ page_id |-> p.page_id, email |-> p.email,
                            dbInfo |-> IF dbInfo = << >> THEN << >> ELSE << dbInfo[1] >>,
                            is_shared |-> p.email # userEmail ] ]
          IN  RowResponse(finalPages)

NoRequest == Request("none", NoHeader, << >>, << >>, "none")

InitRoutes ==
    /\ DispatcherAtRest("routes")
    /\ vision = NoVision
    /\ audio = NoAudio
    /\ parser = NoParse
    /\ resolver = NoResolve
    /\ bestFreeModels = DefaultBestFreeModels
    /\ refresh = NoRefresh
    /\ cache = NoCacheKey
    /\ pool = NoPool
    /\ media = NoMedia
    /\ settings = NoSettings
    /\ \E team \in TeamTables :
          route = [ at |-> "listening", team |-> team, configs |-> StoredConfigs,
                    before |-> StoredConfigs, req |-> NoRequest,
                    res |-> ErrorResponse(0) ]

routeFrame ==
    << resolver, bestFreeModels, refresh, cache, pool, media, settings,
       vision, audio, parser, dispatcherVars >>

\* router.get('/pages')
GetPages ==
    /\ route.at = "listening"
    /\ \E authHeader \in AuthHeaders, fails \in { "none", "my", "team", "shared", "db" } :
          LET req == Request("GET /pages", authHeader, << >>, << >>, fails)
          IN  route' = [ route EXCEPT !.at = "served", !.before = route.configs,
                                      !.req = req,
                                      !.res = GetPagesResponse(route.configs, route.team, req) ]
    /\ UNCHANGED routeFrame

\* router.get('/config/:id')
GetConfig ==
    /\ route.at = "listening"
    /\ \E authHeader \in AuthHeaders, id \in ConfigIds,
          fails \in { "none", "config", "page", "team" } :
          LET req == Request("GET /config", authHeader, id, << >>, fails)
              decision == GetConfigDecision(route.configs, route.team, req)
          IN  route' = [ route EXCEPT !.at = "served", !.before = route.configs,
                                      !.req = req,
                                      !.res = IF decision.status = 200
                                              THEN RowResponse(decision.row)
                                              ELSE ErrorResponse(decision.status) ]
    /\ UNCHANGED routeFrame

\* router.put('/config/:id')
PutConfig ==
    /\ route.at = "listening"
    /\ \E authHeader \in AuthHeaders, id \in ConfigIds, body \in Bodies,
          fails \in { "none", "config", "page", "team", "update" } :
          LET req == Request("PUT /config", authHeader, id, body, fails)
              decision == PutConfigDecision(route.configs, route.team, req)
              updated == UpdateRows(route.configs, parseInt(id), Updates(body))
          IN  IF decision.status # 200 \/ fails = "update"
              THEN route' = [ route EXCEPT !.at = "served", !.before = route.configs,
                                           !.req = req,
                                           !.res = ErrorResponse(IF decision.status # 200
                                                                 THEN decision.status
                                                                 ELSE 500) ]
              ELSE route' = [ route EXCEPT !.at = "served", !.before = route.configs,
                                           !.configs = updated,
                                           !.req = req,
                                           !.res = RowResponse(ConfigRowsOf(updated, parseInt(id))) ]
    /\ UNCHANGED routeFrame

\* the response has been sent; the router takes the next request
Responded ==
    /\ route.at = "served"
    /\ route' = [ route EXCEPT !.at = "listening", !.before = route.configs,
                                !.req = NoRequest, !.res = ErrorResponse(0) ]
    /\ UNCHANGED routeFrame

NextRoutes == GetPages \/ GetConfig \/ PutConfig \/ Responded

SpecRoutes == InitRoutes /\ [][NextRoutes]_vars
\* the user of the request, if its header carries the token of a session
RequesterOf(req) ==
    IF req.authHeader.present /\ req.authHeader.token \in DOMAIN Sessions
    THEN << Sessions[req.authHeader.token] >>
    ELSE << >>

\* the requester may use the page: the page is theirs by e-mail, or an active
\* team membership of theirs lists it in an fb_pages array
Entitled(email, pageId, team) ==
    \/ \E k \in 1..Len(Pages) : Pages[k].page_id = pageId /\ Pages[k].email = email
    \/ \E i \in 1..Len(team) :
          /\ team[i].member_email = email
          /\ team[i].status = "active"
          /\ team[i].permissions.kind = "array"
          /\ \E k \in 1..Len(team[i].permissions.fb_pages) :
                team[i].permissions.fb_pages[k].text = pageId

\* the rows of fb_message_database that the :id of the request names
NamedRows(req) ==
    { i \in 1..Len(route.before) :
        /\ ~parseInt(req.id).isNaN
        /\ route.before[i]["id"] = parseInt(req.id).value }

ConfigServed == route.at = "served" /\ route.req.method \in { "GET /config", "PUT /config" }

(* C34: GET /config/:id and PUT /config/:id decide alike.  The row is sent  *)
(* or updated only for a requester whose token resolves to a user that owns *)
(* the row's page by e-mail or is an active team member with the page in    *)
(* permissions.fb_pages; without a header or with an invalid token the      *)
(* answer is 401, for an id that names no row 404, for any other requester  *)
(* 403 (500 when the page lookup itself fails), and then no row is sent and *)
(* none is modified.  The other route decides the same on the same request. *)
C34_ConfigAuthorization ==
    ConfigServed =>
        LET req == route.req
            user == RequesterOf(req)
            named == NamedRows(req)
            entitled == /\ user # << >> /\ named # {}
                        /\ \A i \in named :
                              Entitled(user[1].email, route.before[i]["page_id"], route.team)
        IN  /\ route.res.status = 200 => entitled
            /\ user = << >> => route.res.status = 401
            /\ (user # << >> /\ named = {}) => route.res.status = 404
            /\ (user # << >> /\ named # {} /\ ~entitled) =>
                  route.res.status = IF req.fails \in { "config" } THEN 404
                                     ELSE IF req.fails = "page" THEN 500 ELSE 403
            /\ route.res.status # 200 =>
                  route.res.rows = << >> /\ route.configs = route.before
            /\ GetConfigDecision(route.before, route.team, req).status
                  = PutConfigDecision(route.before, route.team, req).status

\* a team member whose second membership lists the page as a number is served
\* the row of a page of another owner
C34_Witness ==
    /\ ConfigServed
    /\ route.req.method = "PUT /config"
    /\ route.res.status = 200
    /\ route.req.authHeader.token = "t_member"
    /\ route.req.id = << "1", "x" >>
    /\ Len(route.team) = 2
    /\ route.configs # route.before

\* the columns that a client may write
WritableColumns ==
    { "reply_message", "swipe_reply", "image_detection", "image_send", "template",
      "order_tracking", "block_emoji", "unblock_emoji", "check_conversion",
      "text_prompt", "image_prompt" }

PutAnswered == route.at = "served" /\ route.req.method = "PUT /config"

(* C35: a PUT /config/:id that was authorized changes, in the row it names, *)
(* the columns that are writable and present in the body, to the value of   *)
(* the body; every other column of that row (id, page_id, verified, api_key *)
(* and whatever else the body carries) and every other row stay as stored.  *)
C35_PutWritesAllowlistOnly ==
    PutAnswered =>
        \A i \in 1..Len(route.before) :
            \A c \in Columns :
                route.configs[i][c] =
                    IF /\ route.res.status = 200
                       /\ i \in NamedRows(route.req)
                       /\ c \in WritableColumns
                       /\ c \in DOMAIN route.req.body
                    THEN route.req.body[c]
                    ELSE route.before[i][c]

\* the owner sends verified and reply_message: reply_message alone is written
C35_Witness ==
    /\ PutAnswered
    /\ route.res.status = 200
    /\ DOMAIN route.req.body = { "verified", "reply_message" }
    /\ route.configs[1]["reply_message"] = "sent"
    /\ route.before[1]["reply_message"] = "stored"
    /\ route.configs[1]["verified"] = "stored"

PagesAnswered == route.at = "served" /\ route.req.method = "GET /pages"

(* C36: GET /pages answers 401 exactly when the request carries no token of *)
(* a session; otherwise every page it returns is owned by the requester by  *)
(* e-mail or listed in the fb_pages of an active team membership of theirs, *)
(* no page_id is returned twice, and is_shared is true exactly for the      *)
(* pages whose owner's e-mail is not the requester's.                       *)
C36_PagesOfRequester ==
    PagesAnswered =>
        LET user == RequesterOf(route.req)
            rows == route.res.rows
        IN  /\ route.res.status = 401 <=> user = << >>
            /\ route.res.status = 200 =>
                  /\ \A k \in 1..Len(rows) :
                        /\ Entitled(user[1].email, rows[k].page_id, route.team)
                        /\ rows[k].is_shared <=>
                              \E p \in 1..Len(Pages) :
                                  /\ Pages[p].page_id = rows[k].page_id
                                  /\ Pages[p].email # user[1].email
                  /\ \A k, l \in 1..Len(rows) :
                        rows[k].page_id = rows[l].page_id => k = l

\* the member owns page 3 and has it among the shared pages as well: it is
\* returned once, as their own, next to the shared page 1
C36_Witness ==
    /\ PagesAnswered
    /\ route.res.status = 200
    /\ route.req.authHeader.token = "t_member"
    /\ Len(route.res.rows) = 2
    /\ route.res.rows[1].page_id = "3" /\ ~route.res.rows[1].is_shared
    /\ route.res.rows[2].page_id = "1" /\ route.res.rows[2].is_shared

-----------------------------------------------------------------------------
(* The settings page and the control page of a connected Messenger page     *)
(* (MessengerSettingsPage and MessengerControlPage).  pageConfig is the row *)
(* of page_access_token_message that the dispatcher serves the page from;   *)
(* settings holds the state of the two components, the plan state of the    *)
(* owner and the check_conversion column of the fb_message_database row.    *)

\* import.meta.env.VITE_MANAGED_API_KEY and VITE_MANAGED_MODEL as deployed
MANAGED_SECRET_KEY == "mk_managed"
MANAGED_MODEL == "gemini-2.5-flash-lite"

\* the api_key column as the page reads it: null, or the text
StoredApiKey == IF pageConfig.api_key = << >> THEN Null ELSE pageConfig.api_key[1]

\* the rows a page can be stored with before the settings page saved it
StoredPageRows ==
    [ cheap_engine : { "true", "false", Null },
      api_key : { << >>, << "" >>, << MANAGED_SECRET_KEY >>, << "AIzaSyA" >> },
      ai : { Undef },
      is_external_api : { FALSE } ]

\* what is typed into a number input: nothing, or digits
TypedNumbers == { << >>, << "5" >>, << "3", "0" >>, << "7", "5" >> }

\* Number(e.target.value) of a number input: 0 for the empty text
Number(text) == DecimalValue(text, 0)

\* Math.max(10, Math.min(50, raw))
Clamp(raw) ==
    LET min50 == IF raw < 50 THEN raw ELSE 50
    IN  IF min50 > 10 THEN min50 ELSE 10

\* the onChange of Old Messages in Memory: Number(value) || 10, clamped
MemoryLimitOf(text) ==
    Clamp(IF Number(text) # 0 THEN Number(text) ELSE 10)

\* the onChange of Check Conversion Limit: parseInt(value) || 10
CheckConversionOf(text) ==
    IF parseInt(text).isNaN \/ parseInt(text).value = 0 THEN 10 ELSE parseInt(text).value

\* fetchConfig: isManaged of the stored row
IsManaged(isActive) ==
    IF pageConfig.cheap_engine = "false" THEN FALSE
    ELSE IF pageConfig.cheap_engine = "true" THEN TRUE
    ELSE LET apiKey == OrElse(StoredApiKey, "")
         IN  apiKey = MANAGED_SECRET_KEY \/ (isActive /\ ~Truthy(apiKey))

\* onSubmit: the validation of own mode turns the form away
RejectsEmptyOnly(mode, api_key) == mode # "managed" /\ ~Truthy(api_key)

Rejects(mode, api_key) ==
    mode # "managed" /\ (~Truthy(api_key) \/ api_key = MANAGED_SECRET_KEY)

\* onSubmit: the values that are saved
SubmittedValues(mode, values) ==
    IF mode = "managed"
    THEN [ values EXCEPT !.provider = "gemini", !.api_key = MANAGED_SECRET_KEY,
                         !.chatmodel = MANAGED_MODEL ]
    ELSE values

\* onSubmit: the updates object
PageUpdates(mode, values) ==
    [ ai |-> values.provider, api_key |-> values.api_key,
      chat_model |-> values.chatmodel,
      cheap_engine |-> IF mode = "managed" THEN "true" ELSE "false" ]

NoUpdates == [ ai |-> Undef, api_key |-> Undef, chat_model |-> Undef, cheap_engine |-> Undef ]

DefaultValues ==
    [ provider |-> "openrouter", api_key |-> "", chatmodel |-> "openrouter/auto",
      text_prompt |-> "You are a helpful assistant for a Facebook page." ]

InitSettings ==
    /\ pageConfig \in StoredPageRows
    /\ history = << >>
    /\ imagesLeft = 0
    /\ audioLeft = 0
    /\ pc = "settings"
    /\ messages = << >>
    /\ userKeyAttempted = FALSE
    /\ userKeys = << >>
    /\ curKey = NoKey
    /\ swarmI = 0
    /\ rawContent = NoContent
    /\ keyState = [ k \in PoolKeys |-> Alive ]
    /\ acquires = [ media |-> 0, swarmGet |-> 0, swarm |-> 0 ]
    /\ calls = << >>
    /\ searches = 0
    /\ lastFail = NoFail
    /\ result = Pending
    /\ vision = NoVision
    /\ audio = NoAudio
    /\ parser = NoParse
    /\ resolver = NoResolve
    /\ bestFreeModels = DefaultBestFreeModels
    /\ refresh = NoRefresh
    /\ cache = NoCacheKey
    /\ pool = NoPool
    /\ media = NoMedia
    /\ route = NoRoute
    /\ \E isActive \in BOOLEAN :
          settings = [ at |-> "mounting", loading |-> TRUE, isActive |-> isActive,
                       mode |-> "own", activeMode |-> Null, values |-> DefaultValues,
                       updates |-> NoUpdates, chat_model |-> Undef, toast |-> "",
                       memoryLimit |-> 20, check_conversion |-> 20,
                       config |-> 10, behaviorSaved |-> << >> ]

settingsFrame ==
    << resolver, bestFreeModels, refresh, cache, pool, media, route, vision, audio,
       parser, history, imagesLeft, audioLeft, pc, messages, userKeyAttempted,
       userKeys, curKey, swarmI, rawContent, keyState, acquires, calls,
       searches, lastFail, result >>

\* MessengerSettingsPage.fetchConfig, the rows loaded
fetchConfig ==
    /\ settings.at \in { "mounting", "ready" }
    /\ LET isManaged == IsManaged(settings.isActive)
           loaded == IF isManaged THEN "managed" ELSE "own"
       IN  settings' =
             [ settings EXCEPT
                 !.at = "ready", !.loading = FALSE,
                 !.mode = loaded, !.activeMode = loaded,
                 !.values = [ provider |-> OrElse(pageConfig.ai, "openrouter"),
                              api_key |-> IF isManaged THEN "" ELSE OrElse(StoredApiKey, ""),
                              chatmodel |-> OrElse(settings.chat_model, "openrouter/auto"),
                              text_prompt |-> "" ],
                 !.memoryLimit = IF settings.check_conversion # 0
                                 THEN settings.check_conversion ELSE 20 ]
    /\ UNCHANGED << pageConfig, settingsFrame >>

\* MessengerSettingsPage.fetchConfig, a query fails
fetchConfigFails ==
    /\ settings.at = "mounting"
    /\ settings' = [ settings EXCEPT !.at = "ready", !.loading = FALSE,
                                     !.toast = "Failed to load AI settings" ]
    /\ UNCHANGED << pageConfig, settingsFrame >>

\* the mode radio group
setMode ==
    /\ settings.at = "ready"
    /\ \E v \in { "own", "managed" } : settings' = [ settings EXCEPT !.mode = v ]
    /\ UNCHANGED << pageConfig, settingsFrame >>

\* the API key field of the form
EditApiKey ==
    /\ settings.at = "ready"
    /\ \E key \in { "", MANAGED_SECRET_KEY, "AIzaSyA" } :
          settings' = [ settings EXCEPT !.values.api_key = key ]
    /\ UNCHANGED << pageConfig, settingsFrame >>

\* MessengerSettingsPage.onSubmit up to its first await
onSubmit ==
    /\ settings.at = "ready"
    /\ IF Rejects(settings.mode, settings.values.api_key)
       THEN settings' =
              [ settings EXCEPT
                  !.loading = FALSE,
                  !.toast = IF ~Truthy(settings.values.api_key)
                            THEN "API Key is required for own provider"
                            ELSE "Invalid API Key. Please use your own key." ]
       ELSE LET values == SubmittedValues(settings.mode, settings.values)
            IN  settings' = [ settings EXCEPT !.at = "saving", !.loading = TRUE,
                                              !.values = values,
                                              !.updates = PageUpdates(settings.mode, values) ]
    /\ UNCHANGED << pageConfig, settingsFrame >>

\* MessengerSettingsPage.onSubmit, the update of the page row succeeds
onSubmitSaved ==
    /\ settings.at = "saving"
    /\ pageConfig' = [ pageConfig EXCEPT !.ai = settings.updates.ai,
                                         !.api_key = << settings.updates.api_key >>,
                                         !.cheap_engine = settings.updates.cheap_engine ]
    /\ settings' = [ settings EXCEPT !.at = "ready", !.loading = FALSE,
                                     !.chat_model = settings.updates.chat_model,
                                     !.activeMode = settings.mode,
                                     !.updates = NoUpdates,
                                     !.toast = "AI settings saved successfully" ]
    /\ UNCHANGED settingsFrame

\* MessengerSettingsPage.onSubmit, the prompt request or the update fails
onSubmitFails ==
    /\ settings.at = "saving"
    /\ settings' = [ settings EXCEPT !.at = "ready", !.loading = FALSE,
                                     !.updates = NoUpdates,
                                     !.toast = "Failed to save settings" ]
    /\ UNCHANGED << pageConfig, settingsFrame >>

\* the Old Messages in Memory input of the settings page
EditMemoryLimit ==
    /\ settings.at = "ready"
    /\ \E text \in TypedNumbers :
          settings' = [ settings EXCEPT !.memoryLimit = MemoryLimitOf(text) ]
    /\ UNCHANGED << pageConfig, settingsFrame >>

\* MessengerSettingsPage.handleSaveBehavior
handleSaveBehavior ==
    /\ settings.at = "ready"
    /\ \E saved \in BOOLEAN :
          settings' =
            IF saved
            THEN [ settings EXCEPT !.check_conversion = settings.memoryLimit,
                                   !.behaviorSaved = << settings.memoryLimit >>,
                                   !.toast = "Behavior settings saved!" ]
            ELSE [ settings EXCEPT !.toast = "Failed to save behavior" ]
    /\ UNCHANGED << pageConfig, settingsFrame >>

\* MessengerControlPage.fetchConfig
ControlFetchConfig ==
    /\ settings' = [ settings EXCEPT !.config = settings.check_conversion ]
    /\ UNCHANGED << pageConfig, settingsFrame >>

\* the Check Conversion Limit input of the control page
EditCheckConversion ==
    /\ \E text \in TypedNumbers :
          settings' = [ settings EXCEPT !.config = CheckConversionOf(text) ]
    /\ UNCHANGED << pageConfig, settingsFrame >>

\* MessengerControlPage.handleSave, the PUT is answered with the updated row
ControlHandleSave ==
    /\ settings' = [ settings EXCEPT !.check_conversion = settings.config ]
    /\ UNCHANGED << pageConfig, settingsFrame >>

\* the AI settings form of the settings page
NextSettings ==
    \/ fetchConfig \/ fetchConfigFails \/ setMode \/ EditApiKey
    \/ onSubmit \/ onSubmitSaved \/ onSubmitFails

SpecSettings == InitSettings /\ [][NextSettings]_vars

\* the behaviour settings of the settings page and the control page, for a
\* page that runs on its owner's key
InitBehavior ==
    /\ InitSettings
    /\ pageConfig = [ cheap_engine |-> "false", api_key |-> << "AIzaSyA" >>,
                      ai |-> Undef, is_external_api |-> FALSE ]
    /\ ~settings.isActive

NextBehavior ==
    \/ fetchConfig \/ EditMemoryLimit \/ handleSaveBehavior
    \/ ControlFetchConfig \/ EditCheckConversion \/ ControlHandleSave

SpecBehavior == InitBehavior /\ [][NextBehavior]_vars

(* C37: a submit of the AI settings form in own mode with an empty API key  *)
(* or with the managed secret key starts no request and writes nothing, and *)
(* the loading flag is false after it; and every save that succeeds stores  *)
(* cheap_engine true exactly when the selected mode is managed, then with   *)
(* provider gemini, the managed key and the managed model.                  *)
C37_OwnModeNeedsOwnKey ==
    [][/\ ( /\ onSubmit
            /\ settings.mode = "own"
            /\ settings.values.api_key \in { "", MANAGED_SECRET_KEY } )
          => /\ settings'.at = "ready"
             /\ settings'.loading = FALSE
             /\ settings'.updates = NoUpdates
             /\ settings'.check_conversion = settings.check_conversion
             /\ settings'.chat_model = settings.chat_model
             /\ pageConfig' = pageConfig
       /\ onSubmitSaved
          => /\ pageConfig'.cheap_engine = "true" <=> settings.mode = "managed"
             /\ pageConfig'.cheap_engine = "false" <=> settings.mode = "own"
             /\ settings.mode = "managed" =>
                   /\ pageConfig'.ai = "gemini"
                   /\ pageConfig'.api_key = << MANAGED_SECRET_KEY >>
                   /\ settings'.chat_model = MANAGED_MODEL]_vars

\* the form was turned away for the managed key while nothing is loading
C37_Witness ==
    /\ settings.toast = "Invalid API Key. Please use your own key."
    /\ settings.at = "ready"
    /\ settings.mode = "own"
    /\ ~settings.loading

(* C38: for every stored page row the mode that the settings page shows as  *)
(* its status is the mode the dispatcher serves the page in: 'managed'      *)
(* exactly when useCheapEngine.                                             *)
C38_ShownModeIsDispatcherMode ==
    settings.activeMode # Null =>
        (settings.activeMode = "managed" <=> useCheapEngine)

(* C39: the memory limit that Save Behavior writes to check_conversion is   *)
(* within 10..50.                                                           *)
C39_SavedMemoryLimitInRange ==
    \A k \in 1..Len(settings.behaviorSaved) : settings.behaviorSaved[k] \in 10..50

====
